---- MODULE Spec2Model ----
(***************************************************************************)
(* Model of the TruthDB installer: the disk scanner (platform/disks.rs),   *)
(* the partition planner (platform/partition.rs), the provisioning and     *)
(* configuration steps (platform/install.rs), the application state        *)
(* machine (app.rs) and the pipeline driver run() (main.rs).               *)
(*                                                                         *)
(* Text is modelled as sequences of one-character strings wherever the     *)
(* code inspects it (prefixes, last character, containment); external      *)
(* tools are modelled by the outcome they report, drawn nondeterministically*)
(* by the step that invokes them, and every invocation is appended to the  *)
(* history variable ops.                                                   *)
(***************************************************************************)
EXTENDS Integers, Sequences, FiniteSets, TLC

VARIABLES
    scanner,       \* DiskScanner: [sys, proc, min_size_bytes] with the synthetic roots' content
    eligible,      \* result of DiskScanner::eligible_disks (scanner specification)
    selection,     \* result of DiskScanner::choose_single_target_disk
    rootfs,        \* what the payload archive holds, i.e. the target root once extracted
    pc,            \* position of run() in main.rs
    app,           \* the App of app.rs: [state, should_exit, log_lines]
    reported,      \* history: every message passed to App::handle_error, in order
    payload_found, \* result of payload_path.exists() at main.rs:95
    partitions,    \* (esp, root) derived by expected_esp_and_root_partitions
    calls,         \* history: every platform function run() has called, with its result
    ops,           \* history: every tool invocation and file operation, in order
    mounted,       \* ambient OS state: the mount points currently mounted
    poll_errors,   \* number of input.poll() calls of the main loop that returned Err
    cleanups,      \* history: cleanup calls made by run() after the main loop
    exit_code,     \* "running" until main() calls process::exit
    call_arg,      \* the argument a pure function is applied to (pure-function specification)
    call_ret       \* what that function returned

vars == << scanner, eligible, selection, rootfs, pc, app, reported, payload_found,
           partitions, calls, ops, mounted, poll_errors, cleanups, exit_code,
           call_arg, call_ret >>

-----------------------------------------------------------------------------
(* Text helpers                                                            *)

\* ASCII order of the characters that occur in the modelled names.
Alphabet == << "-", ".", "/", "0", "1", "2", "a", "b", "d", "e", "g", "i", "l", "m",
               "n", "o", "p", "r", "s", "u", "v", "z" >>

Ord(c) == CHOOSE i \in 1..Len(Alphabet) : Alphabet[i] = c

IsAsciiDigit(c) == c \in {"0", "1", "2", "3", "4", "5", "6", "7", "8", "9"}

\* str::starts_with
StartsWith(s, p) == Len(p) <= Len(s) /\ SubSeq(s, 1, Len(p)) = p

\* str::contains
Contains(s, sub) ==
    \E i \in 1..(Len(s) - Len(sub) + 1) : SubSeq(s, i, i + Len(sub) - 1) = sub

\* Ord for str (byte-wise lexicographic), as used by String::cmp
RECURSIVE StrLess(_, _)
StrLess(a, b) ==
    IF b = << >> THEN FALSE
    ELSE IF a = << >> THEN TRUE
    ELSE IF Head(a) = Head(b) THEN StrLess(Tail(a), Tail(b))
    ELSE Ord(Head(a)) < Ord(Head(b))

\* [String]::join
RECURSIVE Join(_, _)
Join(parts, sep) ==
    IF parts = << >> THEN << >>
    ELSE IF Len(parts) = 1 THEN parts[1]
    ELSE parts[1] \o sep \o Join(Tail(parts), sep)

DevDir == << "/", "d", "e", "v", "/" >>

Nl == << "\n" >>

Tab == << "\t" >>

White == {" ", "\t", "\n", "\r"}

\* str::ends_with(char)
EndsWith(s, c) == s # << >> /\ s[Len(s)] = c

\* str::trim_start, str::trim_end, str::trim
RECURSIVE TrimStart(_)
TrimStart(s) ==
    IF s # << >> /\ Head(s) \in White THEN TrimStart(Tail(s)) ELSE s

RECURSIVE TrimEnd(_)
TrimEnd(s) ==
    IF s # << >> /\ s[Len(s)] \in White THEN TrimEnd(SubSeq(s, 1, Len(s) - 1)) ELSE s

Trim(s) == TrimEnd(TrimStart(s))

\* str::lines: the text is cut at every "\n", a "\r" before the "\n" is
\* dropped with it, and an empty piece after the last "\n" is no line.
RECURSIVE Lines(_)
Lines(text) ==
    IF text = << >> THEN << >>
    ELSE IF \E i \in 1..Len(text) : text[i] = "\n"
    THEN LET i    == CHOOSE k \in 1..Len(text) :
                        text[k] = "\n" /\ \A j \in 1..(k - 1) : text[j] # "\n"
             line == SubSeq(text, 1, i - 1)
         IN  << IF EndsWith(line, "\r") THEN SubSeq(line, 1, Len(line) - 1) ELSE line >>
             \o Lines(SubSeq(text, i + 1, Len(text)))
    ELSE << text >>

\* str::split_whitespace
RECURSIVE Fields(_)
Fields(line) ==
    LET t == TrimStart(line)
    IN  IF t = << >> THEN << >>
        ELSE LET n == IF \E i \in 1..Len(t) : t[i] \in White
                      THEN (CHOOSE k \in 1..Len(t) :
                               t[k] \in White /\ \A j \in 1..(k - 1) : t[j] \notin White) - 1
                      ELSE Len(t)
             IN  << SubSeq(t, 1, n) >> \o Fields(SubSeq(t, n + 1, Len(t)))

\* str::split_once: the text before and after the first occurrence of pat.
split_once(s, pat) ==
    IF ~Contains(s, pat) THEN [some |-> FALSE, before |-> << >>, after |-> << >>]
    ELSE LET at(i) == SubSeq(s, i, i + Len(pat) - 1) = pat
             i == CHOOSE k \in 1..(Len(s) - Len(pat) + 1) :
                     at(k) /\ \A j \in 1..(k - 1) : ~at(j)
         IN  [some |-> TRUE, before |-> SubSeq(s, 1, i - 1),
              after |-> SubSeq(s, i + Len(pat), Len(s))]

-----------------------------------------------------------------------------
(* platform/disks.rs                                                       *)

\* Result constructors for the scanner
IoErr == [ok |-> FALSE, val |-> 0]
OkVal(v) == [ok |-> TRUE, val |-> v]

\* unwrap_or on a Result
UnwrapOr(r, d) == IF r.ok THEN r.val ELSE d

\* Faulty variant, for sensitivity checking: every name is a candidate.
is_candidate_name_any(name) == name = name

is_candidate_name(name) ==
    IF \/ StartsWith(name, << "l", "o", "o", "p" >>)
       \/ StartsWith(name, << "r", "a", "m" >>)
       \/ StartsWith(name, << "s", "r" >>)
       \/ StartsWith(name, << "f", "d" >>)
       \/ StartsWith(name, << "d", "m", "-" >>)
       \/ StartsWith(name, << "m", "d" >>)
    THEN FALSE
    ELSE \/ StartsWith(name, << "s", "d" >>)
         \/ StartsWith(name, << "v", "d" >>)
         \/ StartsWith(name, << "n", "v", "m", "e" >>)

\* An attribute file is modelled by what read_to_string + trim + parse::<u64>
\* make of it: [ok |-> FALSE] when unreadable or unparsable, else the number.
read_u64(attr) == attr

\* /sys/block/<dev>/size is in 512-byte sectors.  The modelled sector counts
\* stay far below 2^55, where saturating_mul would saturate.
disk_size_bytes(dev) ==
    LET sectors == read_u64(dev.size)
    IN  IF ~sectors.ok THEN IoErr ELSE OkVal(sectors.val * 512)

\* A mountinfo line is modelled by what split_once(" - ") and
\* split_whitespace make of it: sep tells whether " - " occurs, after holds
\* the whitespace-separated tokens that follow it.
LineSource(line) ==
    IF ~line.sep THEN [some |-> FALSE, val |-> << >>]
    ELSE IF Len(line.after) < 2 THEN [some |-> FALSE, val |-> << >>]
    ELSE [some |-> TRUE, val |-> line.after[2]]

\* Faulty variant, for sensitivity checking: only the whole device counts.
is_device_mounted_exact(proc, dev_name) ==
    IF ~proc.readable THEN [ok |-> FALSE, val |-> FALSE]
    ELSE [ok  |-> TRUE,
          val |-> \E i \in 1..Len(proc.lines) :
                     LET src == LineSource(proc.lines[i])
                     IN  src.some /\ src.val = DevDir \o dev_name]

is_device_mounted(proc, dev_name) ==
    IF ~proc.readable THEN [ok |-> FALSE, val |-> FALSE]
    ELSE LET needle == DevDir \o dev_name
         IN  [ok  |-> TRUE,
              val |-> \E i \in 1..Len(proc.lines) :
                         LET src == LineSource(proc.lines[i])
                         IN  /\ src.some
                             /\ (src.val = needle \/ StartsWith(src.val, needle))]

\* What is_device_mounted makes of the text of /proc/self/mountinfo:
\* contents.lines(), each split at its first " - " and the rest split at
\* whitespace.
mountinfo_lines(contents) ==
    [i \in 1..Len(Lines(contents)) |->
        LET sp == split_once(Lines(contents)[i], << " ", "-", " " >>)
        IN  [sep |-> sp.some, after |-> IF sp.some THEN Fields(sp.after) ELSE << >>]]

MkDisk(dev, size_bytes) ==
    [name |-> dev.name, dev_path |-> DevDir \o dev.name,
     size_bytes |-> size_bytes, model |-> dev.model]

\* The body of the for loop of eligible_disks, over the directory entries in
\* the order read_dir yields them; the first error ends the scan.
RECURSIVE ScanEntries(_, _, _)
ScanEntries(self, entries, disks) ==
    IF entries = << >> THEN [ok |-> TRUE, disks |-> disks]
    ELSE LET dev  == Head(entries)
             rest == Tail(entries)
         IN  IF ~is_candidate_name(dev.name) THEN ScanEntries(self, rest, disks)
             ELSE IF ~dev.has_device THEN ScanEntries(self, rest, disks)
             ELSE IF UnwrapOr(read_u64(dev.removable), 1) # 0
                  THEN ScanEntries(self, rest, disks)
             ELSE IF UnwrapOr(read_u64(dev.ro), 1) # 0
                  THEN ScanEntries(self, rest, disks)
             ELSE LET size_bytes == disk_size_bytes(dev)
                  IN  IF ~size_bytes.ok THEN [ok |-> FALSE, disks |-> << >>]
                      ELSE IF size_bytes.val < self.min_size_bytes
                           THEN ScanEntries(self, rest, disks)
                      ELSE LET m == is_device_mounted(self.proc, dev.name)
                           IN  IF ~m.ok THEN [ok |-> FALSE, disks |-> << >>]
                               ELSE IF m.val THEN ScanEntries(self, rest, disks)
                               ELSE ScanEntries(self, rest,
                                        Append(disks, MkDisk(dev, size_bytes.val)))

\* disks.sort_by(|a, b| a.name.cmp(&b.name)): insertion into a sorted prefix
RECURSIVE InsertByName(_, _)
InsertByName(sorted, d) ==
    IF sorted = << >> THEN << d >>
    ELSE IF StrLess(d.name, Head(sorted).name) THEN << d >> \o sorted
    ELSE << Head(sorted) >> \o InsertByName(Tail(sorted), d)

RECURSIVE SortByName(_)
SortByName(disks) ==
    IF disks = << >> THEN << >>
    ELSE InsertByName(SortByName(SubSeq(disks, 1, Len(disks) - 1)), disks[Len(disks)])

eligible_disks(self) ==
    IF ~self.sys.block_readable THEN [ok |-> FALSE, disks |-> << >>]
    ELSE LET r == ScanEntries(self, self.sys.entries, << >>)
         IN  IF ~r.ok THEN r ELSE [ok |-> TRUE, disks |-> SortByName(r.disks)]

NoEligibleMsg == << "No eligible disks found" >>
AmbiguousPrefix == << "Multiple eligible disks found (refusing to choose automatically): " >>
CommaSpace == << ",", " " >>

DevPaths(disks) == [i \in 1..Len(disks) |-> disks[i].dev_path]

choose_single_target_disk_first_of_many(self) ==
    LET e == eligible_disks(self)
    IN  IF ~e.ok THEN [kind |-> "IoError", disks |-> << >>, msg |-> << "Failed to read" >>]
        ELSE IF Len(e.disks) = 0
             THEN [kind |-> "NoEligibleDisk", disks |-> << >>, msg |-> NoEligibleMsg]
        ELSE [kind |-> "Ok", disks |-> << e.disks[1] >>, msg |-> << >>]

choose_single_target_disk(self) ==
    LET e == eligible_disks(self)
    IN  IF ~e.ok THEN [kind |-> "IoError", disks |-> << >>, msg |-> << "Failed to read" >>]
        ELSE IF Len(e.disks) = 0
             THEN [kind |-> "NoEligibleDisk", disks |-> << >>, msg |-> NoEligibleMsg]
        ELSE IF Len(e.disks) = 1
             THEN [kind |-> "Ok", disks |-> << e.disks[1] >>, msg |-> << >>]
        ELSE [kind |-> "AmbiguousTarget", disks |-> << >>,
              msg  |-> AmbiguousPrefix \o Join(DevPaths(e.disks), CommaSpace)]

-----------------------------------------------------------------------------
(* Tool invocations                                                        *)

\* One entry of the history ops: the function that made the call, the tool
\* or file operation, its target, whether it succeeded and what it printed.
Op(by, cmd, arg, ok) ==
    [by |-> by, cmd |-> cmd, arg |-> arg, ok |-> ok, stdin |-> << >>, args |-> << >>,
     out |-> ""]

\* The result every platform function returns: Ok(()) or Err(msg), with the
\* invocations it made on the way.
Res(ok, trace, msg) == [ok |-> ok, ops |-> trace, msg |-> msg]

\* A straight-line function body "a()?; b()?; c()?": list holds the calls in
\* program order, each << function, tool or file operation, target >> with
\* the text fed on standard input as an optional fourth element and the
\* argument list as an optional fifth (each a sequence of pieces); fail_at is
\* the index of the first call that fails (0 or an index beyond the list:
\* none fails).  The calls after the failing one are
\* never made.
Failed(list, fail_at) == fail_at \in 1..Len(list)

CallTrace(list, fail_at) ==
    [i \in 1..(IF Failed(list, fail_at) THEN fail_at ELSE Len(list)) |->
        [Op(list[i][1], list[i][2], list[i][3], i # fail_at)
            EXCEPT !.stdin = IF Len(list[i]) >= 4 THEN list[i][4] ELSE << >>,
                   !.args  = IF Len(list[i]) >= 5 THEN list[i][5] ELSE << >>]]

\* The effect of a trace on the ambient mount table.
RECURSIVE ApplyMounts(_, _)
ApplyMounts(m, trace) ==
    IF trace = << >> THEN m
    ELSE LET o == Head(trace)
         IN  ApplyMounts(IF o.ok /\ o.cmd = "mount" THEN m \cup {o.arg}
                         ELSE IF o.ok /\ o.cmd = "umount" THEN m \ {o.arg}
                         ELSE m,
                         Tail(trace))

target_root == "/mnt"
target_efi == "/mnt/boot/efi"

-----------------------------------------------------------------------------
(* platform/partition.rs                                                   *)

EFI_SYSTEM_PARTITION_GUID == "C12A7328-F81F-11D2-BA4B-00A0C93EC93B"
LINUX_FILESYSTEM_GUID == "0FC63DAF-8483-4772-8E79-3D69D8477DE4"

\* format!("{}MiB", n), as the two pieces it is made of
MiB(n) == << ToString(n), "MiB" >>

\* The script fed to sfdisk, as the sequence of its pieces.
sfdisk_gpt_script(plan) ==
    << "label: gpt", "\n", "\n", "size=" >> \o MiB(plan.esp_size_mib)
    \o << ", type=", EFI_SYSTEM_PARTITION_GUID, "\n",
          "type=", LINUX_FILESYSTEM_GUID, "\n" >>

\* Faulty variant, for sensitivity checking: the ESP ends at esp_size_mib
\* instead of 1 + esp_size_mib.
parted_args_unshifted_end(disk, plan) ==
    << << "-s" >>, << disk >>, << "mklabel" >>, << "gpt" >>,
       << "mkpart" >>, << "ESP" >>, << "fat32" >>, MiB(1), MiB(plan.esp_size_mib),
       << "set" >>, << "1" >>, << "esp" >>, << "on" >>,
       << "mkpart" >>, << "root" >>, << "ext4" >>, MiB(plan.esp_size_mib), << "100%" >> >>

\* The argument list given to parted; each argument is the sequence of its
\* pieces.
parted_args(disk, plan) ==
    LET esp_start  == MiB(1)
        esp_end    == MiB(1 + plan.esp_size_mib)
        root_start == esp_end
    IN  << << "-s" >>, << disk >>, << "mklabel" >>, << "gpt" >>,
           << "mkpart" >>, << "ESP" >>, << "fat32" >>, esp_start, esp_end,
           << "set" >>, << "1" >>, << "esp" >>, << "on" >>,
           << "mkpart" >>, << "root" >>, << "ext4" >>, root_start, << "100%" >> >>

wipefs_all(o) ==
    Res(o.ok, << Op("wipefs_all", "wipefs", "disk", o.ok) >>, "wipefs failed")

\* command_exists(program): `program --version` exits successfully
command_exists(by, program, exists) == Op(by, "--version", program, exists)

reread_partition_table(o) ==
    IF o.partprobe_exists
    THEN Res(o.partprobe_ok,
             << command_exists("reread_partition_table", "partprobe", TRUE),
                Op("reread_partition_table", "partprobe", "disk", o.partprobe_ok) >>,
             "partprobe failed")
    ELSE Res(TRUE, << command_exists("reread_partition_table", "partprobe", FALSE),
                      Op("reread_partition_table", "sleep", "500ms", TRUE) >>, "")

partition_with_sfdisk(o) ==
    IF ~o.tool_ok
    THEN Res(FALSE, << Op("partition_with_sfdisk", "sfdisk", "disk", FALSE) >>, "sfdisk failed")
    ELSE LET r == reread_partition_table(o)
         IN  Res(r.ok, << Op("partition_with_sfdisk", "sfdisk", "disk", TRUE) >> \o r.ops, r.msg)

partition_with_parted(o) ==
    IF ~o.tool_ok
    THEN Res(FALSE, << Op("partition_with_parted", "parted", "disk", FALSE) >>, "parted failed")
    ELSE LET r == reread_partition_table(o)
         IN  Res(r.ok, << Op("partition_with_parted", "parted", "disk", TRUE) >> \o r.ops, r.msg)

\* Faulty variant, for sensitivity checking: parted is preferred to sfdisk.
partition_gpt_esp_root_parted_first(o) ==
    IF o.parted_exists
    THEN LET r == partition_with_parted(o)
         IN  Res(r.ok, << command_exists("partition_gpt_esp_root", "parted", TRUE) >> \o r.ops,
                 r.msg)
    ELSE IF o.sfdisk_exists
    THEN LET r == partition_with_sfdisk(o)
         IN  Res(r.ok, << command_exists("partition_gpt_esp_root", "parted", FALSE),
                          command_exists("partition_gpt_esp_root", "sfdisk", TRUE) >> \o r.ops,
                 r.msg)
    ELSE Res(FALSE, << command_exists("partition_gpt_esp_root", "parted", FALSE),
                       command_exists("partition_gpt_esp_root", "sfdisk", FALSE) >>,
             "No partitioning tool available")

partition_gpt_esp_root(o) ==
    IF o.sfdisk_exists
    THEN LET r == partition_with_sfdisk(o)
         IN  Res(r.ok, << command_exists("partition_gpt_esp_root", "sfdisk", TRUE) >> \o r.ops,
                 r.msg)
    ELSE IF o.parted_exists
    THEN LET r == partition_with_parted(o)
         IN  Res(r.ok, << command_exists("partition_gpt_esp_root", "sfdisk", FALSE),
                          command_exists("partition_gpt_esp_root", "parted", TRUE) >> \o r.ops,
                 r.msg)
    ELSE Res(FALSE, << command_exists("partition_gpt_esp_root", "sfdisk", FALSE),
                       command_exists("partition_gpt_esp_root", "parted", FALSE) >>,
             "No partitioning tool available")

PartitionOutcomes ==
    [sfdisk_exists : BOOLEAN, parted_exists : BOOLEAN, tool_ok : BOOLEAN,
     partprobe_exists : BOOLEAN, partprobe_ok : BOOLEAN]

RECURSIVE StripSlashes(_)
StripSlashes(path) ==
    IF path # << >> /\ path[Len(path)] = "/"
    THEN StripSlashes(SubSeq(path, 1, Len(path) - 1))
    ELSE path

RECURSIVE LastComponent(_)
LastComponent(path) ==
    IF path = << >> THEN << >>
    ELSE IF path[Len(path)] = "/" THEN << >>
    ELSE LastComponent(SubSeq(path, 1, Len(path) - 1)) \o << path[Len(path)] >>

\* Path::file_name: the last component, trailing separators ignored; << >>
\* stands for None (the root and the empty path have no file name).
file_name(path) == LastComponent(StripSlashes(path))

\* Faulty variant, for sensitivity checking: no separator is ever inserted.
expected_esp_and_root_partitions_never_p(disk) ==
    LET name == file_name(disk)
    IN  IF name = << >> THEN [ok |-> FALSE, esp |-> << >>, root |-> << >>]
        ELSE [ok   |-> TRUE,
              esp  |-> DevDir \o name \o << "1" >>,
              root |-> DevDir \o name \o << "2" >>]

expected_esp_and_root_partitions(disk) ==
    LET name    == file_name(disk)
        needs_p == name # << >> /\ IsAsciiDigit(name[Len(name)])
        sep     == IF needs_p THEN << "p" >> ELSE << >>
    IN  IF name = << >> THEN [ok |-> FALSE, esp |-> << >>, root |-> << >>]
        ELSE [ok   |-> TRUE,
              esp  |-> DevDir \o name \o sep \o << "1" >>,
              root |-> DevDir \o name \o sep \o << "2" >>]

-----------------------------------------------------------------------------
(* platform/install.rs: provisioning                                       *)

format_partitions_calls ==
    << << "format_partitions", "mkfs.vfat", "esp" >>,
       << "format_partitions", "mkfs.ext4", "root" >> >>

\* Faulty variant, for sensitivity checking: a failed mkfs.vfat is ignored
\* and the root file system is created all the same.
format_partitions_esp_failure_ignored(o) ==
    Res(o.fail_at # 2,
        << Op("format_partitions", "mkfs.vfat", "esp", o.fail_at # 1),
           Op("format_partitions", "mkfs.ext4", "root", o.fail_at # 2) >>,
        "mkfs.ext4 failed")

format_partitions(o) ==
    Res(~Failed(format_partitions_calls, o.fail_at),
        CallTrace(format_partitions_calls, o.fail_at),
        IF o.fail_at = 1 THEN "mkfs.vfat failed" ELSE "mkfs.ext4 failed")

FormatOutcomes == [fail_at : 0..Len(format_partitions_calls)]

\* Faulty variant, for sensitivity checking: the ESP mount point is created and mounted
\* before the root file system.
mount_partitions_calls_efi_first ==
    << << "mount_partitions", "create_dir_all", target_efi >>,
       << "mount_partitions", "mount", target_efi >>,
       << "mount_partitions", "create_dir_all", target_root >>,
       << "mount_partitions", "mount", target_root >> >>

mount_partitions_calls ==
    << << "mount_partitions", "create_dir_all", target_root >>,
       << "mount_partitions", "mount", target_root >>,
       << "mount_partitions", "create_dir_all", target_efi >>,
       << "mount_partitions", "mount", target_efi >> >>

\* Faulty variant, for sensitivity checking: a failure to create or mount target_efi is
\* not propagated.
mount_partitions_ignoring_esp(o) ==
    Res(o.fail_at \notin {1, 2}, CallTrace(mount_partitions_calls, o.fail_at),
        IF o.fail_at = 1 THEN "Failed to create" ELSE "Failed to mount root")

mount_partitions(o) ==
    Res(~Failed(mount_partitions_calls, o.fail_at),
        CallTrace(mount_partitions_calls, o.fail_at),
        IF o.fail_at \in {1, 3} THEN "Failed to create"
        ELSE IF o.fail_at = 2 THEN "Failed to mount root" ELSE "Failed to mount ESP")

MountOutcomes == [fail_at : 0..Len(mount_partitions_calls)]

\* umount of a directory that is not a mount point, or that has another
\* file system mounted beneath it, fails whatever the tool would otherwise do.
UmountOk(m, dir, tool_ok) ==
    /\ tool_ok
    /\ dir \in m
    /\ (dir = target_root => target_efi \notin m)

\* Faulty variant, for sensitivity checking: the root file system is unmounted first.
unmount_target_root_first(o, m) ==
    LET root_ok == UmountOk(m, target_root, o.root_ok)
        m1      == IF root_ok THEN m \ {target_root} ELSE m
        efi_ok  == UmountOk(m1, target_efi, o.efi_ok)
    IN  IF ~root_ok
        THEN Res(FALSE, << Op("unmount_target", "umount", target_root, FALSE) >>,
                 "Failed to umount /mnt")
        ELSE Res(efi_ok, << Op("unmount_target", "umount", target_root, TRUE),
                            Op("unmount_target", "umount", target_efi, efi_ok) >>,
                 "Failed to umount /mnt/boot/efi")

unmount_target(o, m) ==
    LET efi_ok  == UmountOk(m, target_efi, o.efi_ok)
        m1      == IF efi_ok THEN m \ {target_efi} ELSE m
        root_ok == UmountOk(m1, target_root, o.root_ok)
    IN  IF ~efi_ok
        THEN Res(FALSE, << Op("unmount_target", "umount", target_efi, FALSE) >>,
                 "Failed to umount /mnt/boot/efi")
        ELSE Res(root_ok, << Op("unmount_target", "umount", target_efi, TRUE),
                             Op("unmount_target", "umount", target_root, root_ok) >>,
                 "Failed to umount /mnt")

UnmountOutcomes == [efi_ok : BOOLEAN, root_ok : BOOLEAN]

\* Faulty variant, for sensitivity checking: tar is run whether or not the
\* payload exists.
extract_rootfs_payload_unchecked(o) ==
    Res(o.payload_exists /\ o.tar_ok,
        << Op("extract_rootfs_payload", "exists", "payload", o.payload_exists),
           Op("extract_rootfs_payload", "tar", target_root, o.payload_exists /\ o.tar_ok) >>,
        IF o.payload_exists THEN "Failed to extract payload" ELSE "Payload does not exist")

extract_rootfs_payload(o) ==
    IF ~o.payload_exists
    THEN Res(FALSE, << Op("extract_rootfs_payload", "exists", "payload", FALSE) >>,
             "Payload does not exist")
    ELSE Res(o.tar_ok, << Op("extract_rootfs_payload", "exists", "payload", TRUE),
                          Op("extract_rootfs_payload", "tar", target_root, o.tar_ok) >>,
             "Failed to extract payload")

ExtractOutcomes == [payload_exists : BOOLEAN, tar_ok : BOOLEAN]

sync_disks(o) ==
    Res(o.ok, << Op("sync_disks", "/bin/busybox", "sync", o.ok) >>, "busybox sync failed")

ToolOutcomes == [ok : BOOLEAN]

-----------------------------------------------------------------------------
(* platform/install.rs: configuration of the mounted target                *)

configure_hostname_calls(hosts_exists) ==
    << << "configure_hostname", "create_dir_all", "/mnt/etc" >>,
       << "configure_hostname", "write", "/mnt/etc/hostname" >> >>
    \o (IF hosts_exists THEN << << "configure_hostname", "read", "/mnt/etc/hosts" >> >>
        ELSE << >>)
    \o << << "configure_hostname", "write", "/mnt/etc/hosts" >> >>

configure_hostname(o) ==
    LET list == configure_hostname_calls(o.hosts_exists)
    IN  Res(~Failed(list, o.fail_at), CallTrace(list, o.fail_at), "Failed to write")

HostnameOutcomes == [hosts_exists : BOOLEAN, fail_at : 0..4]

\* The target's /etc/passwd for each value of rootfs.user: without the
\* account (but with one whose name merely begins with it), with the account,
\* and with the account in a file read_to_string cannot return (a byte that
\* is not UTF-8 in another entry).
PasswdRoot == << "r", "o", "o", "t", ":", "x", ":", "0", ":", "0", ":", ":", "/", "r", "o", "o", "t", ":", "/", "b", "i", "n", "/", "s", "h", "\n" >>

PasswdOther == << "t", "r", "u", "t", "h", "d", "b", "2", ":", "x", ":", "1", "0", "0", "1", ":", "1", "0", "0", "1", ":", ":", "/", "h", "o", "m", "e", "/", "t", "2", ":", "/", "b", "i", "n", "/", "s", "h", "\n" >>

PasswdTruthdb == << "t", "r", "u", "t", "h", "d", "b", ":", "x", ":", "1", "0", "0", "0", ":", "1", "0", "0", "0", ":", ":", "/", "h", "o", "m", "e", "/", "t", "r", "u", "t", "h", "d", "b", ":", "/", "b", "i", "n", "/", "b", "a", "s", "h", "\n" >>

Passwd(user) ==
    [readable |-> user # "unreadable",
     text     |-> PasswdRoot \o (IF user = "absent" THEN PasswdOther ELSE PasswdTruthdb)]

username == << "t", "r", "u", "t", "h", "d", "b" >>

target_user_exists(passwd, name) ==
    IF ~passwd.readable THEN IoErr
    ELSE OkVal(\E i \in 1..Len(Lines(passwd.text)) :
                  StartsWith(Lines(passwd.text)[i], name \o << ":" >>))

\* !target_user_exists(...).unwrap_or(false): an unreadable /etc/passwd counts
\* as "no such user".
NeedsUseradd(user) == ~UnwrapOr(target_user_exists(Passwd(user), username), FALSE)

password == "123456"

\* chroot_run: `chroot <target_root> <program_in_chroot> <args..>`
chroot_run(program_in_chroot, args) ==
    << "chroot_run", "chroot", program_in_chroot, << >>,
       << << target_root >>, << program_in_chroot >> >> \o [i \in 1..Len(args) |-> << args[i] >>] >>

\* Faulty variant, for sensitivity checking: the credentials are an argument.
chroot_chpasswd_by_argument(name, pw) ==
    << "chroot_chpasswd", "chroot", "/usr/sbin/chpasswd", << >>,
       << << target_root >>, << "/usr/sbin/chpasswd" >>, << name, ":", pw >> >> >>

\* chroot_chpasswd: `chroot <target_root> /usr/sbin/chpasswd`, fed
\* "<username>:<password>\n" on standard input.
chroot_chpasswd(name, pw) ==
    << "chroot_chpasswd", "chroot", "/usr/sbin/chpasswd", << name, ":", pw, "\n" >>,
       << << target_root >>, << "/usr/sbin/chpasswd" >> >> >>

\* Faulty variant, for sensitivity checking: the sudo group is ensured before
\* useradd and chpasswd are looked for.
configure_initial_users_calls_groupadd_early(user) ==
    << << "configure_initial_users", "exists", "/mnt/usr/bin/sudo" >>,
       << "configure_initial_users", "exists", "/mnt/usr/sbin/groupadd" >>,
       chroot_run("/usr/sbin/groupadd", << "-f", "sudo" >>),
       << "configure_initial_users", "exists", "/mnt/usr/sbin/useradd" >>,
       << "configure_initial_users", "exists", "/mnt/usr/sbin/chpasswd" >> >>
    \o (IF NeedsUseradd(user)
        THEN << chroot_run("/usr/sbin/useradd",
                           << "-m", "-s", "/bin/bash", "-G", "sudo", "truthdb" >>) >>
        ELSE << >>)
    \o << chroot_chpasswd("truthdb", password), chroot_chpasswd("root", password) >>

configure_initial_users_calls(user) ==
    << << "configure_initial_users", "exists", "/mnt/usr/bin/sudo" >>,
       << "configure_initial_users", "exists", "/mnt/usr/sbin/groupadd" >>,
       << "configure_initial_users", "exists", "/mnt/usr/sbin/useradd" >>,
       << "configure_initial_users", "exists", "/mnt/usr/sbin/chpasswd" >>,
       chroot_run("/usr/sbin/groupadd", << "-f", "sudo" >>) >>
    \o (IF NeedsUseradd(user)
        THEN << chroot_run("/usr/sbin/useradd",
                           << "-m", "-s", "/bin/bash", "-G", "sudo", "truthdb" >>) >>
        ELSE << >>)
    \o << chroot_chpasswd("truthdb", password), chroot_chpasswd("root", password) >>

configure_initial_users(o) ==
    LET list == configure_initial_users_calls(o.user)
    IN  Res(~Failed(list, o.fail_at), CallTrace(list, o.fail_at),
            IF o.fail_at = 1 THEN "Target rootfs is missing sudo"
            ELSE IF o.fail_at <= 4 THEN "Missing in target rootfs" ELSE "chroot failed")

UsersOutcomes == [user : {"present", "absent", "unreadable"}, fail_at : 0..8]

\* ensure_machine_id: the existing file is kept when its trimmed content has
\* at least 32 characters; machine_id is "absent", "short" or "long".
ensure_machine_id_calls(machine_id) ==
    IF machine_id = "long" THEN << >>
    ELSE << << "ensure_machine_id", "read", "/proc/sys/kernel/random/uuid" >>,
            << "ensure_machine_id", "create_dir_all", "/mnt/etc" >>,
            << "ensure_machine_id", "write", "/mnt/etc/machine-id" >>,
            << "ensure_machine_id", "create_dir_all", "/mnt/var/lib/dbus" >>,
            << "ensure_machine_id", "symlink", "/mnt/var/lib/dbus/machine-id" >> >>

\* enable_systemd_unit: link_exists stands for "already enabled"
enable_systemd_unit_calls(unit, link_exists) ==
    << << "enable_systemd_unit", "find_systemd_unit_file", unit >>,
       << "enable_systemd_unit", "create_dir_all", "/mnt/etc/systemd/system/multi-user.target.wants" >> >>
    \o (IF link_exists THEN << >> ELSE << << "enable_systemd_unit", "symlink", unit >> >>)

\* enable_systemd_unit_optional: status is "missing", "present" or "enabled"
enable_systemd_unit_optional_calls(unit, status) ==
    IF status = "missing" THEN << >>
    ELSE enable_systemd_unit_calls(unit, status = "enabled")

configure_systemd_networkd_dhcp_calls(o) ==
    << << "configure_systemd_networkd_dhcp", "create_dir_all", "/mnt/etc/systemd/network" >>,
       << "configure_systemd_networkd_dhcp", "write", "/mnt/etc/systemd/network/20-dhcp.network" >> >>
    \o enable_systemd_unit_calls("systemd-networkd.service", o.networkd_enabled)
    \o enable_systemd_unit_optional_calls("systemd-networkd-wait-online.service", o.wait_online)
    \o enable_systemd_unit_optional_calls("systemd-resolved.service", o.resolved)
    \o (IF o.resolved # "missing"
        THEN << << "configure_systemd_networkd_dhcp", "symlink", "/mnt/etc/resolv.conf" >> >>
        ELSE << >>)

\* The optional units found missing are only warned about.
SkippedUnits(o) ==
    (IF o.wait_online = "missing" THEN {"systemd-networkd-wait-online.service"} ELSE {})
    \cup (IF o.resolved = "missing" THEN {"systemd-resolved.service"} ELSE {})

\* enable_systemd_unit_optional's own lookup of the unit file: a missing
\* file is warned about and the unit is skipped.
optional_lookup(unit, status) ==
    Op("enable_systemd_unit_optional", "find_systemd_unit_file", unit, status # "missing")

\* The invocations of ensure_machine_id and configure_systemd_networkd_dhcp,
\* up to the first that fails, with the two optional lookups where the code
\* makes them.
dhcp_trace(o) ==
    LET mid   == ensure_machine_id_calls(o.machine_id)
        list  == mid \o configure_systemd_networkd_dhcp_calls(o)
        trace == CallTrace(list, o.fail_at)
        n1    == Len(mid) + 2
                 + Len(enable_systemd_unit_calls("systemd-networkd.service", o.networkd_enabled))
        n2    == n1 + Len(enable_systemd_unit_optional_calls(
                              "systemd-networkd-wait-online.service", o.wait_online))
        cut(n) == IF n < Len(trace) THEN n ELSE Len(trace)
    IN  SubSeq(trace, 1, cut(n1))
        \o (IF o.fail_at \in 1..n1 THEN << >>
            ELSE << optional_lookup("systemd-networkd-wait-online.service", o.wait_online) >>)
        \o SubSeq(trace, cut(n1) + 1, cut(n2))
        \o (IF o.fail_at \in 1..n2 THEN << >>
            ELSE << optional_lookup("systemd-resolved.service", o.resolved) >>)
        \o SubSeq(trace, cut(n2) + 1, Len(trace))

dhcp_failed(o) ==
    Failed(ensure_machine_id_calls(o.machine_id) \o configure_systemd_networkd_dhcp_calls(o),
           o.fail_at)

\* Faulty variant, for sensitivity checking: a failure of ensure_systemd_pid1
\* is returned.
configure_first_boot_dhcp_pid1_fatal(o) ==
    IF dhcp_failed(o) THEN Res(FALSE, dhcp_trace(o), "Failed to configure networking")
    ELSE Res(o.pid1_ok,
             dhcp_trace(o) \o << Op("ensure_systemd_pid1", "symlink", "/mnt/sbin/init",
                                    o.pid1_ok) >>,
             "could not ensure systemd is PID 1")

configure_first_boot_dhcp(o) ==
    IF dhcp_failed(o) THEN Res(FALSE, dhcp_trace(o), "Failed to configure networking")
    ELSE \* ensure_systemd_pid1 is best-effort: its failure is only warned about
         Res(TRUE, dhcp_trace(o) \o << Op("ensure_systemd_pid1", "symlink", "/mnt/sbin/init",
                                          o.pid1_ok) >>, "")

UnitStatus == {"missing", "present", "enabled"}

DhcpOutcomes ==
    [machine_id : {"absent", "short", "long"}, networkd_enabled : BOOLEAN,
     wait_online : UnitStatus, resolved : UnitStatus, fail_at : 0..17, pid1_ok : BOOLEAN]

-----------------------------------------------------------------------------
(* platform/install.rs: the files configure_hostname writes                *)

Addr_127_0_0_1 == << "1", "2", "7", ".", "0", ".", "0", ".", "1" >>

Addr_127_0_1_1 == << "1", "2", "7", ".", "0", ".", "1", ".", "1" >>

LocalhostLine == << "1", "2", "7", ".", "0", ".", "0", ".", "1", "\t", "l", "o", "c", "a", "l", "h", "o", "s", "t" >>

Ipv6Marker == << ":", ":", "1" >>

Ipv6Defaults ==
    << ":", ":", "1", "\t", "l", "o", "c", "a", "l", "h", "o", "s", "t", " ", "i", "p", "6", "-", "l", "o", "c", "a", "l", "h", "o", "s", "t", " ", "i", "p", "6", "-", "l", "o", "o", "p", "b", "a", "c", "k", "\n" >>
    \o << "f", "f", "0", "2", ":", ":", "1", "\t", "i", "p", "6", "-", "a", "l", "l", "n", "o", "d", "e", "s", "\n" >>
    \o << "f", "f", "0", "2", ":", ":", "2", "\t", "i", "p", "6", "-", "a", "l", "l", "r", "o", "u", "t", "e", "r", "s", "\n" >>

\* The loop over existing.lines(): st is (out, has_localhost, wrote_127_0_1_1).
RECURSIVE hosts_loop(_, _, _)
hosts_loop(lines, hostname, st) ==
    IF lines = << >> THEN st
    ELSE LET line    == Head(lines)
             trimmed == Trim(line)
             has     == st.has_localhost \/ StartsWith(trimmed, Addr_127_0_0_1)
         IN  IF StartsWith(trimmed, Addr_127_0_1_1)
             THEN hosts_loop(Tail(lines), hostname,
                      [out |-> IF st.wrote_127_0_1_1 THEN st.out
                               ELSE Append(st.out, Addr_127_0_1_1 \o Tab \o hostname),
                       has_localhost |-> has,
                       wrote_127_0_1_1 |-> TRUE])
             ELSE hosts_loop(Tail(lines), hostname,
                      [out |-> Append(st.out, line),
                       has_localhost |-> has,
                       wrote_127_0_1_1 |-> st.wrote_127_0_1_1])

\* The content configure_hostname writes to /etc/hosts, from the content it read.
final_hosts(existing, hostname) ==
    LET st     == hosts_loop(Lines(existing), hostname,
                      [out |-> << >>, has_localhost |-> FALSE, wrote_127_0_1_1 |-> FALSE])
        out1   == IF st.has_localhost THEN st.out ELSE Append(st.out, LocalhostLine)
        out    == IF st.wrote_127_0_1_1 THEN out1
                  ELSE Append(out1, Addr_127_0_1_1 \o Tab \o hostname)
        joined == Join(out, Nl)
        ended  == IF EndsWith(joined, "\n") THEN joined ELSE joined \o Nl
    IN  IF Contains(ended, Ipv6Marker) THEN ended ELSE ended \o Ipv6Defaults

\* The target's /etc after a configure_hostname in which every file
\* operation succeeds; etc is [hosts_exists, hosts, hostname].
configure_hostname_files(etc, hostname) ==
    [hostname     |-> hostname \o Nl,
     hosts_exists |-> TRUE,
     hosts        |-> final_hosts(IF etc.hosts_exists THEN etc.hosts ELSE << >>, hostname)]

-----------------------------------------------------------------------------
(* platform/install.rs: the content ensure_machine_id leaves in             *)
(* /etc/machine-id                                                          *)

\* char::is_ascii_hexdigit
is_ascii_hexdigit(c) ==
    c \in {"0", "1", "2", "3", "4", "5", "6", "7", "8", "9",
           "a", "b", "c", "d", "e", "f", "A", "B", "C", "D", "E", "F"}

\* The early return: the file can be read and its trimmed content has at
\* least 32 characters.
keeps_existing(file) == file.readable /\ Len(Trim(file.text)) >= 32

\* ensure_machine_id on the target's /etc/machine-id and the kernel's
\* /proc/sys/kernel/random/uuid, each [readable, text]; the file operations
\* on the target succeed.
ensure_machine_id(file, uuid) ==
    IF keeps_existing(file) THEN [ok |-> TRUE, file |-> file]
    ELSE IF ~uuid.readable THEN [ok |-> FALSE, file |-> file]
    ELSE LET hex == SelectSeq(uuid.text, is_ascii_hexdigit)
             id  == SubSeq(hex, 1, IF Len(hex) < 32 THEN Len(hex) ELSE 32)
         IN  IF Len(id) # 32 THEN [ok |-> FALSE, file |-> file]
             ELSE [ok |-> TRUE, file |-> [readable |-> TRUE, text |-> id \o Nl]]

-----------------------------------------------------------------------------
(* platform/install.rs: the kernel and initrd find_installed_kernel_and_initrd *)
(* picks                                                                   *)

KernelPrefix == << "v", "m", "l", "i", "n", "u", "z", "-" >>

InitrdPrefix == << "i", "n", "i", "t", "r", "d", ".", "i", "m", "g", "-" >>

\* Vec::sort followed by pop: the greatest element in byte order.
Greatest(names) == CHOOSE x \in names : \A y \in names : y = x \/ StrLess(y, x)

\* boot is [readable, names]: whether /boot can be listed and the file names
\* in it.
find_installed_kernel_and_initrd(boot) ==
    LET kernels == {n \in boot.names : StartsWith(n, KernelPrefix)}
        initrds == {n \in boot.names :
                       ~StartsWith(n, KernelPrefix) /\ StartsWith(n, InitrdPrefix)}
    IN  IF ~boot.readable \/ kernels = {} \/ initrds = {}
        THEN [ok |-> FALSE, kernel |-> << >>, initrd |-> << >>]
        ELSE [ok |-> TRUE, kernel |-> Greatest(kernels), initrd |-> Greatest(initrds)]

-----------------------------------------------------------------------------
(* platform/install.rs: boot configuration                                 *)

\* blkid_uuid: r is "fail" (the tool could not be run or exited non-zero),
\* "empty" (it succeeded and printed nothing) or "ok" (it printed a UUID).
BlkidOp(dev, r) ==
    [Op("blkid_uuid", "blkid", dev, r # "fail") EXCEPT !.out = IF r = "ok" THEN "uuid" ELSE ""]

blkid_uuid(dev, r) ==
    IF r = "fail" THEN Res(FALSE, << BlkidOp(dev, r) >>, "blkid failed")
    ELSE IF r = "empty" THEN Res(FALSE, << BlkidOp(dev, r) >>, "blkid returned empty UUID")
    ELSE Res(TRUE, << BlkidOp(dev, r) >>, "")

write_fstab_calls ==
    << << "write_fstab", "create_dir_all", "/mnt/etc" >>,
       << "write_fstab", "write", "/mnt/etc/fstab" >> >>

install_systemd_boot_efi_calls ==
    << << "install_systemd_boot_efi", "exists", "/usr/lib/systemd/boot/efi/systemd-bootx64.efi" >>,
       << "install_systemd_boot_efi", "create_dir_all", "/mnt/boot/efi/EFI/BOOT" >>,
       << "install_systemd_boot_efi", "copy", "/mnt/boot/efi/EFI/BOOT/BOOTX64.EFI" >>,
       << "install_systemd_boot_efi", "create_dir_all", "/mnt/boot/efi/EFI/systemd" >>,
       << "install_systemd_boot_efi", "copy", "/mnt/boot/efi/EFI/systemd/systemd-bootx64.efi" >> >>

find_installed_kernel_and_initrd_calls ==
    << << "find_installed_kernel_and_initrd", "read_dir", "/mnt/boot" >>,
       << "find_installed_kernel_and_initrd", "pop", "vmlinuz-*" >>,
       << "find_installed_kernel_and_initrd", "pop", "initrd.img-*" >> >>

copy_kernel_calls ==
    << << "configure_boot_systemd_boot", "create_dir_all", "/mnt/boot/efi/EFI/debian" >>,
       << "configure_boot_systemd_boot", "copy", "/mnt/boot/efi/EFI/debian/vmlinuz" >>,
       << "configure_boot_systemd_boot", "copy", "/mnt/boot/efi/EFI/debian/initrd.img" >> >>

write_systemd_boot_entry_calls ==
    << << "write_systemd_boot_entry", "create_dir_all", "/mnt/boot/efi/loader/entries" >>,
       << "write_systemd_boot_entry", "write", "/mnt/boot/efi/loader/loader.conf" >>,
       << "write_systemd_boot_entry", "write", "/mnt/boot/efi/loader/entries/debian.conf" >> >>

\* Faulty variant, for sensitivity checking: the copied kernel and initrd are
\* not looked for.
verify_esp_layout_calls_without_kernel ==
    << << "verify_esp_layout", "exists", "/mnt/boot/efi/EFI/BOOT/BOOTX64.EFI" >>,
       << "verify_esp_layout", "exists", "/mnt/boot/efi/EFI/systemd/systemd-bootx64.efi" >>,
       << "verify_esp_layout", "exists", "/mnt/boot/efi/loader/loader.conf" >>,
       << "verify_esp_layout", "exists", "/mnt/boot/efi/loader/entries/debian.conf" >> >>

verify_esp_layout_calls ==
    << << "verify_esp_layout", "exists", "/mnt/boot/efi/EFI/BOOT/BOOTX64.EFI" >>,
       << "verify_esp_layout", "exists", "/mnt/boot/efi/EFI/systemd/systemd-bootx64.efi" >>,
       << "verify_esp_layout", "exists", "/mnt/boot/efi/loader/loader.conf" >>,
       << "verify_esp_layout", "exists", "/mnt/boot/efi/loader/entries/debian.conf" >>,
       << "verify_esp_layout", "exists", "/mnt/boot/efi/EFI/debian/vmlinuz" >>,
       << "verify_esp_layout", "exists", "/mnt/boot/efi/EFI/debian/initrd.img" >> >>

\* register_uefi_boot_entry: r is "not_uefi" (/sys/firmware/efi absent),
\* "mkdir_fail", "exec_fail" (efibootmgr could not be run), "ok",
\* "recognized" (non-zero exit with one of the four recognized messages on
\* stderr) or "other" (any other non-zero exit).  The result of mounting
\* efivarfs is ignored.
RecognizedStderr ==
    {"EFI variables are not supported", "Could not prepare boot variable",
     "Operation not permitted", "Read-only file system"}

\* What efibootmgr wrote to its standard error.
EfibootmgrStderr(r) ==
    IF r = "recognized" THEN "Could not prepare boot variable"
    ELSE IF r = "other" THEN "Invalid argument"
    ELSE ""

register_uefi_boot_entry(r, efivarfs_ok) ==
    LET by == "register_uefi_boot_entry"
    IN  IF r = "not_uefi"
        THEN Res(TRUE, << Op(by, "exists", "/sys/firmware/efi", FALSE) >>, "")
        ELSE IF r = "mkdir_fail"
        THEN Res(FALSE, << Op(by, "exists", "/sys/firmware/efi", TRUE),
                           Op(by, "create_dir_all", "/sys/firmware/efi/efivars", FALSE) >>,
                 "Failed to create efivars")
        ELSE Res(r = "ok" \/ (r # "exec_fail" /\ EfibootmgrStderr(r) \in RecognizedStderr),
                 << Op(by, "exists", "/sys/firmware/efi", TRUE),
                    Op(by, "create_dir_all", "/sys/firmware/efi/efivars", TRUE),
                    Op(by, "mount", "/sys/firmware/efi/efivars", efivarfs_ok),
                    [Op(by, "efibootmgr", "disk", r = "ok")
                        EXCEPT !.out = EfibootmgrStderr(r)] >>,
                 IF r = "exec_fail" THEN "Failed to execute efibootmgr"
                 ELSE "efibootmgr failed")

\* Everything configure_boot_systemd_boot does after the two UUID lookups,
\* up to and including verify_esp_layout.
boot_write_calls ==
    write_fstab_calls \o install_systemd_boot_efi_calls
    \o find_installed_kernel_and_initrd_calls \o copy_kernel_calls
    \o write_systemd_boot_entry_calls \o verify_esp_layout_calls

\* Faulty variant, for sensitivity checking: /etc/fstab is written as soon as the root
\* UUID is known, before the ESP UUID is looked up.
configure_boot_systemd_boot_fstab_first(o) ==
    LET root  == blkid_uuid("root", o.root_uuid)
        fstab == CallTrace(write_fstab_calls, 0)
        esp   == blkid_uuid("esp", o.esp_uuid)
        body  == CallTrace(boot_write_calls, o.fail_at)
        reg   == register_uefi_boot_entry(o.register, o.efivarfs_ok)
    IN  IF ~root.ok THEN Res(FALSE, root.ops, "Failed to get root UUID")
        ELSE IF ~esp.ok THEN Res(FALSE, root.ops \o fstab \o esp.ops, "Failed to get ESP UUID")
        ELSE IF Failed(boot_write_calls, o.fail_at)
        THEN Res(FALSE, root.ops \o esp.ops \o body, "Boot file step failed")
        ELSE Res(TRUE, root.ops \o esp.ops \o body \o reg.ops, "")

configure_boot_systemd_boot(o) ==
    LET root == blkid_uuid("root", o.root_uuid)
        esp  == blkid_uuid("esp", o.esp_uuid)
        body == CallTrace(boot_write_calls, o.fail_at)
        reg  == register_uefi_boot_entry(o.register, o.efivarfs_ok)
    IN  IF ~root.ok THEN Res(FALSE, root.ops, "Failed to get root UUID")
        ELSE IF ~esp.ok THEN Res(FALSE, root.ops \o esp.ops, "Failed to get ESP UUID")
        ELSE IF Failed(boot_write_calls, o.fail_at)
        THEN Res(FALSE, root.ops \o esp.ops \o body, "Boot file step failed")
        ELSE \* a failed registration is only warned about
             Res(TRUE, root.ops \o esp.ops \o body \o reg.ops, "")

BlkidResults == {"fail", "empty", "ok"}

RegisterResults == {"not_uefi", "mkdir_fail", "exec_fail", "ok", "recognized", "other"}

BootOutcome(root_uuid, esp_uuid, fail_at, register, efivarfs_ok) ==
    [root_uuid |-> root_uuid, esp_uuid |-> esp_uuid, fail_at |-> fail_at,
     register |-> register, efivarfs_ok |-> efivarfs_ok]

\* Every way the tools can behave during boot configuration; what a tool
\* would do after the step that ends the function is left out.
BootOutcomes ==
    {BootOutcome(r, "ok", 0, "ok", TRUE) : r \in BlkidResults \ {"ok"}}
    \cup {BootOutcome("ok", e, 0, "ok", TRUE) : e \in BlkidResults \ {"ok"}}
    \cup {BootOutcome("ok", "ok", k, "ok", TRUE) : k \in 1..Len(boot_write_calls)}
    \cup {BootOutcome("ok", "ok", 0, r, m) : r \in RegisterResults, m \in BOOLEAN}

-----------------------------------------------------------------------------
(* app.rs                                                                  *)

max_log_lines == 80

\* A log line or message is a sequence of text pieces.
L(text) == << text >>

AppState(tag, msg) == [tag |-> tag, msg |-> msg]

\* Faulty variant, for sensitivity checking: the log is never trimmed.
log_step_uncapped(a, line) == [a EXCEPT !.log_lines = Append(a.log_lines, line)]

log_step(a, line) ==
    LET pushed == Append(a.log_lines, line)
    IN  [a EXCEPT !.log_lines =
            IF Len(pushed) > max_log_lines
            THEN SubSeq(pushed, Len(pushed) - max_log_lines + 1, Len(pushed))
            ELSE pushed]

AppNew ==
    log_step([state |-> AppState("BootSplash", << >>), should_exit |-> FALSE,
              log_lines |-> << >>],
             L("TruthDB Installer booting"))

transition_to(a, new_state) ==
    [a EXCEPT !.should_exit = IF new_state.tag = "Exit" THEN TRUE ELSE @,
              !.state = new_state]

initialize(a) ==
    IF a.state.tag = "BootSplash" THEN transition_to(a, AppState("Welcome", << >>)) ELSE a

\* Faulty variant, for sensitivity checking: the quit key is taken in every state.
handle_input_in_any_state(a, key) ==
    IF key \in {"q", "Q"} THEN transition_to(a, AppState("Exit", << >>)) ELSE a

handle_input(a, key) ==
    IF a.state.tag \in {"Welcome", "Error"} /\ key \in {"q", "Q"}
    THEN transition_to(a, AppState("Exit", << >>))
    ELSE a

\* wrap_for_ui(text, 78, "[ERR] ", "      "): the modelled messages fit the
\* first line, which is the prefix followed by the text.
wrap_for_ui(text, first_prefix) == << << first_prefix >> \o text >>

RECURSIVE LogAll(_, _)
LogAll(a, lines) ==
    IF lines = << >> THEN a ELSE LogAll(log_step(a, Head(lines)), Tail(lines))

handle_error(a, error) ==
    [LogAll(a, wrap_for_ui(error, "[ERR] ")) EXCEPT !.state = AppState("Error", error)]

get_display_text(a) ==
    a.log_lines \o (IF a.state.tag = "Exit" THEN << L("[OK] Exiting") >> ELSE << >>)

-----------------------------------------------------------------------------
(* main.rs: run()                                                          *)

\* One entry of the history calls: the platform function, its result and the
\* mount table at the time of the call.
CallAt(fn, ok, m) == [fn |-> fn, ok |-> ok, mounted |-> m]

Call(fn, ok) == CallAt(fn, ok, mounted)

\* render_frame(&app, &mut *ui)?: presenting a frame can fail, and run() then
\* returns the error, which main() turns into process::exit(1).
RenderOutcomes == BOOLEAN

\* The variables a pipeline step of run() may change.
Set(pcv, appv, repv, callsv, opsv, exitv) ==
    /\ pc' = pcv
    /\ app' = appv
    /\ reported' = repv
    /\ calls' = callsv
    /\ ops' = opsv
    /\ mounted' = ApplyMounts(mounted, SubSeq(opsv, Len(ops) + 1, Len(opsv)))
    /\ exit_code' = exitv

\* run() returns Err(_) from a `?`: main() exits with status 1.
ReturnErr(appv) == Set("exited", appv, reported, calls, ops, "exit1")

InitUi ==
    /\ pc = "ui_init"
    /\ \E r \in RenderOutcomes :
        LET a1 == log_step(app, L("[..] Initializing UI"))
            a2 == log_step(a1, L("[OK] UI initialized"))
        IN  IF ~r THEN ReturnErr(a2)
            ELSE Set("input_init", a2, reported, calls, ops, exit_code)
    /\ UNCHANGED << call_arg, call_ret, scanner, eligible, selection, rootfs, payload_found, partitions,
                    poll_errors, cleanups >>

InitInput ==
    /\ pc = "input_init"
    /\ \E init_ok \in BOOLEAN, r \in RenderOutcomes :
        LET a1 == log_step(app, L("[..] Initializing input"))
            a2 == log_step(a1, L("[OK] Input initialized (press Q to quit for now)"))
        IN  IF ~init_ok THEN ReturnErr(a1)
            ELSE IF ~r THEN ReturnErr(a2)
            ELSE Set("select_disk", initialize(a2), reported, calls, ops, exit_code)
    /\ UNCHANGED << call_arg, call_ret, scanner, eligible, selection, rootfs, payload_found, partitions,
                    poll_errors, cleanups >>

SelectDisk ==
    /\ pc = "select_disk"
    /\ \E r \in RenderOutcomes :
        LET a1  == log_step(app, L("[..] Enumerating eligible disks"))
            sel == choose_single_target_disk(scanner)
            c   == Append(calls, Call("choose_single_target_disk", sel.kind = "Ok"))
            msg == << "Disk selection failed: " >> \o sel.msg
        IN  IF ~r THEN ReturnErr(a1) /\ selection' = selection
            ELSE /\ selection' = sel
                 /\ IF sel.kind = "Ok"
                    THEN Set("check_payload",
                             log_step(a1, << "[OK] Target disk: " >> \o sel.disks[1].dev_path
                                          \o << " (", ToString(sel.disks[1].size_bytes), " bytes)" >>),
                             reported, c, ops, exit_code)
                    ELSE Set("render_initial", handle_error(a1, msg),
                             Append(reported, msg), c, ops, exit_code)
    /\ UNCHANGED << call_arg, call_ret, scanner, eligible, rootfs, payload_found, partitions, poll_errors, cleanups >>

\* Faulty variant, for sensitivity checking: the pipeline goes on to the wipe although
\* the payload archive is missing.
CheckPayload_ignoring_missing_payload ==
    /\ pc = "check_payload"
    /\ \E r1 \in RenderOutcomes, exists \in BOOLEAN :
        LET a1 == log_step(app, L("[..] Checking Debian rootfs payload"))
        IN  IF ~r1 THEN ReturnErr(a1) /\ payload_found' = payload_found
            ELSE /\ payload_found' = IF exists THEN "present" ELSE "missing"
                 /\ Set("wipe", log_step(a1, L("[OK] Rootfs payload present")),
                        reported, calls, ops, exit_code)
    /\ UNCHANGED << call_arg, call_ret, scanner, eligible, selection, rootfs, partitions, poll_errors, cleanups >>

\* main.rs:92-101.  A missing payload ends run() with Ok(()).
CheckPayload ==
    /\ pc = "check_payload"
    /\ \E r1 \in RenderOutcomes, r2 \in RenderOutcomes, exists \in BOOLEAN :
        LET a1  == log_step(app, L("[..] Checking Debian rootfs payload"))
            msg == L("Missing rootfs payload: /payload/debian-minbase-amd64-bookworm.tar.zst")
        IN  IF ~r1 THEN ReturnErr(a1) /\ payload_found' = payload_found
            ELSE IF ~exists
            THEN /\ payload_found' = "missing"
                 /\ Set("exited", handle_error(a1, msg), Append(reported, msg), calls, ops,
                        IF r2 THEN "exit0" ELSE "exit1")
            ELSE /\ payload_found' = "present"
                 /\ Set("wipe", log_step(a1, L("[OK] Rootfs payload present")),
                        reported, calls, ops, exit_code)
    /\ UNCHANGED << call_arg, call_ret, scanner, eligible, selection, rootfs, partitions, poll_errors, cleanups >>

\* main.rs:103-109.  Whatever wipefs reports, run() goes on to partitioning.
Wipe ==
    /\ pc = "wipe"
    /\ \E r \in RenderOutcomes, o \in ToolOutcomes :
        LET a1  == log_step(app, L("[..] Wiping disk signatures (wipefs)"))
            res == wipefs_all(o)
            c   == Append(calls, Call("wipefs_all", res.ok))
            msg == << "wipefs failed: ", res.msg >>
        IN  IF ~r THEN ReturnErr(a1)
            ELSE IF ~res.ok
            THEN Set("partition", handle_error(a1, msg), Append(reported, msg), c,
                     ops \o res.ops, exit_code)
            ELSE Set("partition", log_step(a1, L("[OK] Signatures wiped")), reported, c,
                     ops \o res.ops, exit_code)
    /\ UNCHANGED << call_arg, call_ret, scanner, eligible, selection, rootfs, payload_found, partitions,
                    poll_errors, cleanups >>

\* main.rs:111-124.  A partitioning failure falls through to the main loop.
Partition ==
    /\ pc = "partition"
    /\ \E r \in RenderOutcomes, o \in PartitionOutcomes :
        LET a1    == log_step(app, L("[..] Partitioning disk (GPT: ESP+root)"))
            res   == partition_gpt_esp_root(o)
            c     == Append(calls, Call("partition_gpt_esp_root", res.ok))
            msg   == << "Partitioning failed: ", res.msg >>
            a2    == log_step(a1, L("[OK] Disk partitioned"))
            parts == expected_esp_and_root_partitions(selection.disks[1].dev_path)
            c2    == Append(c, Call("expected_esp_and_root_partitions", parts.ok))
            a3    == log_step(log_step(a2, << "[OK] ESP partition: " >> \o parts.esp),
                              << "[OK] Root partition: " >> \o parts.root)
        IN  IF ~r THEN ReturnErr(a1) /\ partitions' = partitions
            ELSE IF ~res.ok
            THEN /\ partitions' = partitions
                 /\ Set("render_initial", handle_error(a1, msg), Append(reported, msg), c,
                        ops \o res.ops, exit_code)
            ELSE IF ~parts.ok
            THEN /\ partitions' = partitions
                 /\ Set("render_initial", a2, reported, c2, ops \o res.ops, exit_code)
            ELSE /\ partitions' = parts
                 /\ Set("format", a3, reported, c2, ops \o res.ops, exit_code)
    /\ UNCHANGED << call_arg, call_ret, scanner, eligible, selection, rootfs, payload_found, poll_errors, cleanups >>

\* main.rs:126-133.  A formatting failure ends run() with Ok(()).
Format ==
    /\ pc = "format"
    /\ \E r1 \in RenderOutcomes, r2 \in RenderOutcomes, o \in FormatOutcomes :
        LET a1  == log_step(app, L("[..] Formatting partitions (vfat+ext4)"))
            res == format_partitions(o)
            c   == Append(calls, Call("format_partitions", res.ok))
            msg == << "Formatting failed: ", res.msg >>
        IN  IF ~r1 THEN ReturnErr(a1)
            ELSE IF ~res.ok
            THEN Set("exited", handle_error(a1, msg), Append(reported, msg), c,
                     ops \o res.ops, IF r2 THEN "exit0" ELSE "exit1")
            ELSE Set("mount", log_step(a1, L("[OK] Partitions formatted")), reported, c,
                     ops \o res.ops, exit_code)
    /\ UNCHANGED << call_arg, call_ret, scanner, eligible, selection, rootfs, payload_found, partitions,
                    poll_errors, cleanups >>

\* main.rs:135-146.  A mount failure ends run() with Ok(()).
Mount ==
    /\ pc = "mount"
    /\ \E r1 \in RenderOutcomes, r2 \in RenderOutcomes, o \in MountOutcomes :
        LET a1  == log_step(app, L("[..] Mounting target filesystem"))
            res == mount_partitions(o)
            c   == Append(calls, Call("mount_partitions", res.ok))
            msg == << "Mount failed: ", res.msg >>
        IN  IF ~r1 THEN ReturnErr(a1)
            ELSE IF ~res.ok
            THEN Set("exited", handle_error(a1, msg), Append(reported, msg), c,
                     ops \o res.ops, IF r2 THEN "exit0" ELSE "exit1")
            ELSE Set("extract", log_step(a1, L("[OK] Mounted root at /mnt")), reported, c,
                     ops \o res.ops, exit_code)
    /\ UNCHANGED << call_arg, call_ret, scanner, eligible, selection, rootfs, payload_found, partitions,
                    poll_errors, cleanups >>

\* The shape shared by the steps of main.rs:148-223: log the step, render,
\* call fn; on Err report it, render, call unmount_target (result dropped)
\* and return Ok(()); on Ok log the success line and go on to next.
LateStep(fn, res, begin_line, ok_line, err_prefix, next) ==
    \E r1 \in RenderOutcomes :
        LET a1  == log_step(app, L(begin_line))
            c   == Append(calls, Call(fn, res.ok))
            msg == << err_prefix, res.msg >>
            m1  == ApplyMounts(mounted, res.ops)
        IN  IF ~r1 THEN ReturnErr(a1)
            ELSE IF res.ok
            THEN Set(next, log_step(a1, L(ok_line)), reported, c, ops \o res.ops, exit_code)
            ELSE \E r2 \in RenderOutcomes :
                    IF ~r2
                    THEN Set("exited", handle_error(a1, msg), Append(reported, msg), c,
                             ops \o res.ops, "exit1")
                    ELSE \E u \in UnmountOutcomes :
                            LET um == unmount_target(u, m1)
                            IN  Set("exited", handle_error(a1, msg), Append(reported, msg),
                                    Append(c, CallAt("unmount_target", um.ok, m1)),
                                    ops \o res.ops \o um.ops, "exit0")

Extract ==
    /\ pc = "extract"
    /\ \E o \in ExtractOutcomes :
        LateStep("extract_rootfs_payload", extract_rootfs_payload(o),
                 "[..] Extracting Debian rootfs payload", "[OK] Rootfs extracted",
                 "Extract failed: ", "hostname")
    /\ UNCHANGED << call_arg, call_ret, scanner, eligible, selection, rootfs, payload_found, partitions,
                    poll_errors, cleanups >>

\* Faulty variant, for sensitivity checking: the user step is left out.
Hostname_then_network ==
    /\ pc = "hostname"
    /\ \E o \in {x \in HostnameOutcomes : x.hosts_exists = rootfs.hosts_exists} :
        LateStep("configure_hostname", configure_hostname(o),
                 "[..] Setting hostname to truthdb01", "[OK] Hostname configured",
                 "Hostname setup failed: ", "network")
    /\ UNCHANGED << call_arg, call_ret, scanner, eligible, selection, rootfs, payload_found, partitions,
                    poll_errors, cleanups >>

Hostname ==
    /\ pc = "hostname"
    /\ \E o \in {x \in HostnameOutcomes : x.hosts_exists = rootfs.hosts_exists} :
        LateStep("configure_hostname", configure_hostname(o),
                 "[..] Setting hostname to truthdb01", "[OK] Hostname configured",
                 "Hostname setup failed: ", "users")
    /\ UNCHANGED << call_arg, call_ret, scanner, eligible, selection, rootfs, payload_found, partitions,
                    poll_errors, cleanups >>

Users ==
    /\ pc = "users"
    /\ \E o \in {x \in UsersOutcomes : x.user = rootfs.user} :
        LateStep("configure_initial_users", configure_initial_users(o),
                 "[..] Creating initial user (truthdb) + setting passwords",
                 "[OK] User/password configured", "User setup failed: ", "network")
    /\ UNCHANGED << call_arg, call_ret, scanner, eligible, selection, rootfs, payload_found, partitions,
                    poll_errors, cleanups >>

Network ==
    /\ pc = "network"
    /\ \E o \in {x \in DhcpOutcomes : /\ x.machine_id = rootfs.machine_id
                                      /\ x.networkd_enabled = rootfs.networkd_enabled
                                      /\ x.wait_online = rootfs.wait_online
                                      /\ x.resolved = rootfs.resolved} :
        LateStep("configure_first_boot_dhcp", configure_first_boot_dhcp(o),
                 "[..] Enabling DHCP networking (systemd-networkd)",
                 "[OK] Networking configured (DHCP on boot)",
                 "Networking setup failed: ", "boot")
    /\ UNCHANGED << call_arg, call_ret, scanner, eligible, selection, rootfs, payload_found, partitions,
                    poll_errors, cleanups >>

Boot ==
    /\ pc = "boot"
    /\ \E o \in BootOutcomes :
        LateStep("configure_boot_systemd_boot", configure_boot_systemd_boot(o),
                 "[..] Installing bootloader (systemd-boot)", "[OK] Boot configured",
                 "Boot config failed: ", "sync")
    /\ UNCHANGED << call_arg, call_ret, scanner, eligible, selection, rootfs, payload_found, partitions,
                    poll_errors, cleanups >>

Sync ==
    /\ pc = "sync"
    /\ \E o \in ToolOutcomes :
        LateStep("sync_disks", sync_disks(o), "[..] Syncing disks", "[OK] Disks synced",
                 "Sync failed: ", "unmount")
    /\ UNCHANGED << call_arg, call_ret, scanner, eligible, selection, rootfs, payload_found, partitions,
                    poll_errors, cleanups >>

\* main.rs:226-237.  A failure of the final unmount ends run() with Ok(()).
Unmount ==
    /\ pc = "unmount"
    /\ \E r1 \in RenderOutcomes, r2 \in RenderOutcomes, u \in UnmountOutcomes :
        LET a1  == log_step(app, L("[..] Unmounting target"))
            res == unmount_target(u, mounted)
            c   == Append(calls, Call("unmount_target", res.ok))
            msg == << "Unmount failed: ", res.msg >>
        IN  IF ~r1 THEN ReturnErr(a1)
            ELSE IF ~res.ok
            THEN Set("exited", handle_error(a1, msg), Append(reported, msg), c,
                     ops \o res.ops, IF r2 THEN "exit0" ELSE "exit1")
            ELSE Set("render_initial",
                     log_step(log_step(a1, L("[OK] Unmounted target")),
                              L("[OK] Install complete (reboot and remove ISO)")),
                     reported, c, ops \o res.ops, exit_code)
    /\ UNCHANGED << call_arg, call_ret, scanner, eligible, selection, rootfs, payload_found, partitions,
                    poll_errors, cleanups >>

\* main.rs:247-250
RenderInitial ==
    /\ pc = "render_initial"
    /\ \E r \in RenderOutcomes :
        IF ~r THEN ReturnErr(app)
        ELSE Set("main_loop", app, reported, calls, ops, exit_code)
    /\ UNCHANGED << call_arg, call_ret, scanner, eligible, selection, rootfs, payload_found, partitions,
                    poll_errors, cleanups >>

\* What input.poll() can return besides Ok(None) and Err: both the evdev key
\* map and the stdin fallback yield lower-case characters only.
Keys == {"q", "w"}

MaxPollErrors == 1

\* main.rs:253-285, one iteration of the main loop with poll() = Ok(None)
PollNone ==
    /\ pc = "main_loop"
    /\ pc' = IF app.should_exit THEN "cleanup" ELSE "main_loop"
    /\ UNCHANGED << call_arg, call_ret, scanner, eligible, selection, rootfs, app, reported, payload_found,
                    partitions, calls, ops, mounted, poll_errors, cleanups, exit_code >>

\* one iteration with poll() = Ok(Some(ch))
PollKey ==
    /\ pc = "main_loop"
    /\ \E ch \in Keys, r \in RenderOutcomes :
        LET a1 == handle_input(app, ch)
            a2 == IF ch \in {"q", "Q"} THEN log_step(a1, L("[..] Exit requested")) ELSE a1
        IN  IF ~r THEN ReturnErr(a2)
            ELSE Set(IF a2.should_exit THEN "cleanup" ELSE "main_loop",
                     a2, reported, calls, ops, exit_code)
    /\ UNCHANGED << call_arg, call_ret, scanner, eligible, selection, rootfs, payload_found, partitions,
                    poll_errors, cleanups >>

\* one iteration with poll() = Err(e)
PollErr ==
    /\ pc = "main_loop"
    /\ poll_errors < MaxPollErrors
    /\ poll_errors' = poll_errors + 1
    /\ \E r \in RenderOutcomes :
        LET msg == << "Input error: ", "read failed" >>
            a1  == handle_error(app, msg)
        IN  IF ~r THEN Set("exited", a1, Append(reported, msg), calls, ops, "exit1")
            ELSE Set(IF a1.should_exit THEN "cleanup" ELSE "main_loop",
                     a1, Append(reported, msg), calls, ops, exit_code)
    /\ UNCHANGED << call_arg, call_ret, scanner, eligible, selection, rootfs, payload_found, partitions,
                    cleanups >>

\* main.rs:287-292.  EvdevHandler::cleanup always returns Ok; the UI cleanup
\* can fail, and run() then returns the error.
Cleanup ==
    /\ pc = "cleanup"
    /\ \E ui_ok \in BOOLEAN :
        /\ cleanups' = << "input.cleanup", "ui.cleanup" >>
        /\ Set("exited", app, reported, calls, ops, IF ui_ok THEN "exit0" ELSE "exit1")
    /\ UNCHANGED << call_arg, call_ret, scanner, eligible, selection, rootfs, payload_found, partitions,
                    poll_errors >>

-----------------------------------------------------------------------------
(* Inputs                                                                  *)

\* The scanner is parametric in its size threshold.  new_default() uses
\* 8 GiB, which is beyond the integers TLC computes with, so the model uses
\* the 1 MiB threshold of the repository's own tests (disks.rs, make_scanner)
\* and sector counts around it.
MinSizeBytes == 1048576

sda == << "s", "d", "a" >>
sdb == << "s", "d", "b" >>
nvme0n1 == << "n", "v", "m", "e", "0", "n", "1" >>
loop0 == << "l", "o", "o", "p", "0" >>

Dev(name, has_device, removable, ro, size) ==
    [name |-> name, has_device |-> has_device, removable |-> removable, ro |-> ro,
     size |-> size, model |-> [some |-> has_device, val |-> "UTM Disk"]]

GoodDev(name) == Dev(name, TRUE, OkVal(0), OkVal(0), OkVal(4096))

\* The attribute profiles a synthetic device can have.
DevProfiles(name) ==
    { GoodDev(name),
      Dev(name, FALSE, OkVal(0), OkVal(0), OkVal(4096)),
      Dev(name, TRUE, OkVal(1), OkVal(0), OkVal(4096)),
      Dev(name, TRUE, OkVal(0), OkVal(1), OkVal(4096)),
      Dev(name, TRUE, OkVal(0), OkVal(0), IoErr),
      Dev(name, TRUE, OkVal(0), OkVal(0), OkVal(2047)),
      Dev(name, TRUE, IoErr, OkVal(0), IoErr) }

Line(sep, after) == [sep |-> sep, after |-> after]

Proc(readable, lines) == [readable |-> readable, lines |-> lines]

ProcChoices ==
    { Proc(FALSE, << >>),
      Proc(TRUE, << >>),
      Proc(TRUE, << Line(TRUE, << << "e", "x", "t", "4" >>, DevDir \o sda \o << "1" >>,
                                  << "r", "w" >> >>) >>),
      Proc(TRUE, << Line(FALSE, << >>),
                    Line(TRUE, << << "t", "m", "p", "f", "s" >> >>),
                    Line(TRUE, << << "e", "x", "t", "4" >>, DevDir \o sdb >>) >>) }

Scanner(block_readable, entries, proc) ==
    [sys |-> [block_readable |-> block_readable, entries |-> entries],
     proc |-> proc, min_size_bytes |-> MinSizeBytes]

\* The machines the pipeline is run on.
DriverScanners ==
    { Scanner(TRUE, << >>, Proc(TRUE, << >>)),
      Scanner(TRUE, << GoodDev(sda) >>, Proc(TRUE, << >>)),
      Scanner(TRUE, << GoodDev(loop0), GoodDev(nvme0n1) >>, Proc(TRUE, << >>)),
      Scanner(TRUE, << GoodDev(sdb), GoodDev(sda) >>, Proc(TRUE, << >>)),
      Scanner(FALSE, << >>, Proc(TRUE, << >>)) }

Rootfs(hosts_exists, user, machine_id, networkd_enabled, wait_online, resolved) ==
    [hosts_exists |-> hosts_exists, user |-> user, machine_id |-> machine_id,
     networkd_enabled |-> networkd_enabled, wait_online |-> wait_online,
     resolved |-> resolved]

\* The payloads the pipeline is run with.
RootfsProfiles ==
    { Rootfs(TRUE, "absent", "absent", FALSE, "present", "present"),
      Rootfs(FALSE, "present", "long", TRUE, "missing", "enabled"),
      Rootfs(TRUE, "unreadable", "short", FALSE, "enabled", "missing") }

NoSelection == [kind |-> "None", disks |-> << >>, msg |-> << >>]
NoEligible == [ok |-> FALSE, disks |-> << >>]
NoPartitions == [ok |-> FALSE, esp |-> << >>, root |-> << >>]
NoArg == [fn |-> "none"]
NoRet == [ok |-> FALSE]

-----------------------------------------------------------------------------
(* The pipeline driver                                                     *)

Init ==
    /\ scanner \in DriverScanners
    /\ eligible = NoEligible
    /\ selection = NoSelection
    /\ rootfs \in RootfsProfiles
    /\ pc = "ui_init"
    /\ app = AppNew
    /\ reported = << >>
    /\ payload_found = "unchecked"
    /\ partitions = NoPartitions
    /\ calls = << >>
    /\ ops = << >>
    /\ mounted = {}
    /\ poll_errors = 0
    /\ cleanups = << >>
    /\ exit_code = "running"
    /\ call_arg = NoArg
    /\ call_ret = NoRet

Next ==
    \/ InitUi \/ InitInput \/ SelectDisk \/ CheckPayload \/ Wipe \/ Partition
    \/ Format \/ Mount \/ Extract \/ Hostname \/ Users \/ Network \/ Boot \/ Sync
    \/ Unmount \/ RenderInitial \/ PollNone \/ PollKey \/ PollErr \/ Cleanup

Spec == Init /\ [][Next]_vars

-----------------------------------------------------------------------------
(* The disk scanner on synthetic roots                                     *)

MaxDevices == 3

DevNames == {sda, sdb, nvme0n1, loop0}

DevChoices == UNION {DevProfiles(n) : n \in DevNames}

\* Directory listings: up to MaxDevices entries with distinct names, in any order.
EntryLists ==
    UNION { {e \in [1..n -> DevChoices] :
                \A i \in 1..n, j \in 1..n : i < j => e[i].name # e[j].name}
            : n \in 0..MaxDevices }

ScannerInputs ==
    {Scanner(TRUE, e, p) : e \in EntryLists, p \in ProcChoices}
    \cup {Scanner(FALSE, << >>, p) : p \in ProcChoices}

InitDisks ==
    /\ scanner \in ScannerInputs
    /\ eligible = NoEligible
    /\ selection = NoSelection
    /\ rootfs \in {Rootfs(TRUE, "absent", "absent", FALSE, "present", "present")}
    /\ pc = "scan"
    /\ app = AppNew
    /\ reported = << >>
    /\ payload_found = "unchecked"
    /\ partitions = NoPartitions
    /\ calls = << >>
    /\ ops = << >>
    /\ mounted = {}
    /\ poll_errors = 0
    /\ cleanups = << >>
    /\ exit_code = "running"
    /\ call_arg = NoArg
    /\ call_ret = NoRet

Scan ==
    /\ pc = "scan"
    /\ pc' = "scanned"
    /\ eligible' = eligible_disks(scanner)
    /\ selection' = choose_single_target_disk(scanner)
    /\ UNCHANGED << call_arg, call_ret, scanner, rootfs, app, reported, payload_found, partitions, calls,
                    ops, mounted, poll_errors, cleanups, exit_code >>

NextDisks == Scan

SpecDisks == InitDisks /\ [][NextDisks]_vars

-----------------------------------------------------------------------------
(* Properties                                                              *)

OpIdx == 1..Len(ops)
CallIdx == 1..Len(calls)

\* The mount table just before the i-th invocation of the run.
MountsBefore(i) == ApplyMounts({}, SubSeq(ops, 1, i - 1))

DestructiveTools == {"wipefs", "sfdisk", "parted", "mkfs.vfat", "mkfs.ext4"}

PartitionTools == {"sfdisk", "parted"}

\* The steps that work on the mounted target.
TargetSteps ==
    {"extract_rootfs_payload", "configure_hostname", "configure_initial_users",
     "configure_first_boot_dhcp", "configure_boot_systemd_boot"}

\* The steps after which a failure is compensated by unmount_target.
LateSteps == TargetSteps \cup {"sync_disks"}

IsUmount(i, dir) ==
    /\ ops[i].by = "unmount_target"
    /\ ops[i].cmd = "umount"
    /\ ops[i].arg = dir

\* C1: choose_single_target_disk returns a disk if and only if eligible_disks
\* yields exactly one disk, and then exactly that disk; with no eligible disk
\* it fails with the no-eligible-disk error; with two or more it fails with
\* the ambiguous-target error, whose message contains the device path of
\* every eligible disk.
C1_SingleTargetOnly ==
    pc = "scanned" =>
        /\ (selection.kind = "Ok") <=> (eligible.ok /\ Len(eligible.disks) = 1)
        /\ selection.kind = "Ok" => selection.disks = eligible.disks
        /\ (eligible.ok /\ Len(eligible.disks) = 0) =>
              /\ selection.kind = "NoEligibleDisk"
              /\ selection.msg = NoEligibleMsg
        /\ (eligible.ok /\ Len(eligible.disks) >= 2) =>
              /\ selection.kind = "AmbiguousTarget"
              /\ StartsWith(selection.msg, AmbiguousPrefix)
              /\ \A i \in 1..Len(eligible.disks) :
                    Contains(selection.msg, eligible.disks[i].dev_path)

C1_AmbiguousReached ==
    /\ pc = "scanned"
    /\ eligible.ok
    /\ Len(eligible.disks) >= 2
    /\ selection.kind = "AmbiguousTarget"

\* C2: no destructive operation (wipefs, sfdisk, parted, mkfs) is invoked
\* unless disk selection returned exactly one target disk and the payload
\* archive was found to exist before; when selection fails or the payload is
\* missing no destructive operation is ever invoked.
C2_DestructiveOnlyWithDiskAndPayload ==
    /\ \A i \in OpIdx :
          ops[i].cmd \in DestructiveTools =>
              /\ selection.kind = "Ok"
              /\ Len(selection.disks) = 1
              /\ payload_found = "present"
    /\ (selection.kind \notin {"None", "Ok"} \/ payload_found = "missing") =>
          \A i \in OpIdx : ops[i].cmd \notin DestructiveTools

C2_DiskFormatted ==
    \E i \in OpIdx : ops[i].cmd = "mkfs.ext4" /\ ops[i].ok

\* C3: partitioning (sfdisk or parted) is never started in a run in which
\* wipefs did not succeed first.
C3_PartitionOnlyAfterWipe ==
    \A i \in OpIdx :
        ops[i].cmd \in PartitionTools =>
            \E j \in 1..(i - 1) : ops[j].cmd = "wipefs" /\ ops[j].ok

\* C4: in a run in which mount_partitions succeeded, a failure of a later
\* step is followed by exactly one unmount_target attempt, which is the last
\* thing the pipeline does, and the error reported last is the step's own.
C4_UnmountOnceAfterLateFailure ==
    \A i \in CallIdx :
        ( /\ calls[i].fn \in LateSteps
          /\ ~calls[i].ok
          /\ \E j \in 1..(i - 1) : calls[j].fn = "mount_partitions" /\ calls[j].ok )
        => /\ Len(calls) = i + 1
           /\ calls[i + 1].fn = "unmount_target"
           /\ Len(reported) > 0
           /\ app.state = AppState("Error", reported[Len(reported)])

\* C5: after a pipeline step has failed the application is in the Error
\* state (or Exit, once quit was requested), the process ends of its own
\* accord (status 0) only after an explicit quit key, and no step is
\* attempted twice.  An exit with status 1 caused by a failure of the display
\* itself is not held against the driver here.
C5_StaysAliveAfterFailure ==
    (\E i \in CallIdx : ~calls[i].ok) =>
        /\ app.state.tag \in {"Error", "Exit"}
        /\ exit_code = "exit0" => app.should_exit
        /\ \A i \in CallIdx, j \in CallIdx : i # j => calls[i].fn # calls[j].fn

\* C6: a step that needs the mounted target runs only when both target_root
\* and target_efi are mounted, mount_partitions succeeded earlier in the run
\* and unmount_target has not been called yet; after a failed
\* mount_partitions no such step runs.
C6_TargetStepsNeedMounts ==
    \A i \in CallIdx :
        /\ calls[i].fn \in TargetSteps =>
              /\ {target_root, target_efi} \subseteq calls[i].mounted
              /\ \E j \in 1..(i - 1) : calls[j].fn = "mount_partitions" /\ calls[j].ok
              /\ \A j \in 1..(i - 1) : calls[j].fn # "unmount_target"
        /\ (calls[i].fn = "mount_partitions" /\ ~calls[i].ok) =>
              \A j \in (i + 1)..Len(calls) : calls[j].fn \notin TargetSteps

C6_TargetStepRan ==
    \E i \in CallIdx : calls[i].fn = "configure_boot_systemd_boot"

\* C7: mount_partitions mounts the root file system directly after creating
\* target_root; target_efi is created and mounted only after the root mount
\* succeeded; after a failed root mount nothing is done to target_efi.
C7_RootMountedBeforeEsp ==
    \A i \in OpIdx :
        ops[i].by = "mount_partitions" =>
            /\ (ops[i].cmd = "mount" /\ ops[i].arg = target_root) =>
                  /\ i > 1
                  /\ ops[i - 1] = Op("mount_partitions", "create_dir_all", target_root, TRUE)
            /\ ops[i].arg = target_efi =>
                  /\ target_root \in MountsBefore(i)
                  /\ \E j \in 1..(i - 1) :
                        ops[j] = Op("mount_partitions", "mount", target_root, TRUE)
            /\ (ops[i].cmd = "mount" /\ ops[i].arg = target_root /\ ~ops[i].ok) =>
                  \A j \in (i + 1)..Len(ops) :
                        ~(ops[j].by = "mount_partitions" /\ ops[j].arg = target_efi)

C7_EspMounted ==
    \E i \in OpIdx : ops[i] = Op("mount_partitions", "mount", target_efi, TRUE)

\* C8: unmount_target unmounts target_root only directly after it has
\* unmounted target_efi, never while target_efi is still mounted, and issues
\* each unmount at most once per call.
C8_EspUnmountedBeforeRoot ==
    /\ \A i \in OpIdx :
          IsUmount(i, target_root) =>
              /\ i > 1
              /\ ops[i - 1] = Op("unmount_target", "umount", target_efi, TRUE)
              /\ target_efi \notin MountsBefore(i)
    /\ \A dir \in {target_efi, target_root} :
          Cardinality({i \in OpIdx : IsUmount(i, dir)})
              <= Cardinality({i \in CallIdx : calls[i].fn = "unmount_target"})

C8_BothUnmounted ==
    /\ \E i \in OpIdx : IsUmount(i, target_root) /\ ops[i].ok
    /\ mounted \cap {target_root, target_efi} = {}

\* C9: every call of unmount_target attempts both unmounts: each unmount of
\* target_efi, failed or not, is followed by an unmount of target_root.
C9_BothUnmountsAttempted ==
    \A i \in OpIdx :
        IsUmount(i, target_efi) => (i < Len(ops) /\ IsUmount(i + 1, target_root))

BootFunctions ==
    {"write_fstab", "install_systemd_boot_efi", "find_installed_kernel_and_initrd",
     "configure_boot_systemd_boot", "write_systemd_boot_entry", "verify_esp_layout",
     "register_uefi_boot_entry"}

UuidRead(i, dev) ==
    /\ ops[i].cmd = "blkid"
    /\ ops[i].arg = dev
    /\ ops[i].ok
    /\ ops[i].out # ""

\* C10: configure_boot_systemd_boot does nothing but look up UUIDs until both
\* UUIDs are read: every other operation of it comes after a successful,
\* non-empty lookup for the root partition and one for the ESP; after a
\* lookup that failed or returned nothing the function does nothing more and
\* reports failure.
C10_UuidsBeforeWrites ==
    /\ \A i \in OpIdx :
          ops[i].by \in BootFunctions =>
              \E j \in 1..(i - 1) :
                  /\ UuidRead(j, "root")
                  /\ \E k \in (j + 1)..(i - 1) : UuidRead(k, "esp")
    /\ \A i \in OpIdx :
          (ops[i].cmd = "blkid" /\ ~(ops[i].ok /\ ops[i].out # "")) =>
              /\ \A k \in (i + 1)..Len(ops) : ops[k].by \notin BootFunctions \cup {"blkid_uuid"}
              /\ \E c \in CallIdx :
                    calls[c].fn = "configure_boot_systemd_boot" /\ ~calls[c].ok

C10_EspUuidEmpty ==
    /\ \E i \in OpIdx :
          ops[i].cmd = "blkid" /\ ops[i].arg = "esp" /\ ops[i].ok /\ ops[i].out = ""
    /\ \E c \in CallIdx : calls[c].fn = "configure_boot_systemd_boot" /\ ~calls[c].ok

\* C11: a failed efibootmgr registration is swallowed only when its error
\* output is one of the recognized messages; after any other registration
\* failure (the tool could not be run, or failed with another message)
\* configure_boot_systemd_boot reports failure.
C11_UnrecognizedRegistrationFatal ==
    \A i \in OpIdx :
        ( /\ ops[i].by = "register_uefi_boot_entry"
          /\ ops[i].cmd = "efibootmgr"
          /\ ~ops[i].ok
          /\ ops[i].out \notin RecognizedStderr )
        => \E c \in CallIdx : calls[c].fn = "configure_boot_systemd_boot" /\ ~calls[c].ok

RealDiskPrefixes == {<< "s", "d" >>, << "v", "d" >>, << "n", "v", "m", "e" >>}

VirtualPrefixes ==
    {<< "l", "o", "o", "p" >>, << "r", "a", "m" >>, << "s", "r" >>, << "f", "d" >>,
     << "d", "m", "-" >>, << "m", "d" >>}

\* Some line of the mount table has, as second token after " - ", a source
\* that is /dev/<name> or starts with it.
MountedInTable(proc, name) ==
    \E i \in 1..Len(proc.lines) :
        /\ proc.lines[i].sep
        /\ Len(proc.lines[i].after) >= 2
        /\ StartsWith(proc.lines[i].after[2], DevDir \o name)

\* The eligibility predicate, stated on the content of the synthetic roots.
Eligible(self, dev) ==
    /\ \E p \in RealDiskPrefixes : StartsWith(dev.name, p)
    /\ \A p \in VirtualPrefixes : ~StartsWith(dev.name, p)
    /\ dev.has_device
    /\ dev.removable = OkVal(0)
    /\ dev.ro = OkVal(0)
    /\ dev.size.ok
    /\ dev.size.val * 512 >= self.min_size_bytes
    /\ self.proc.readable
    /\ ~MountedInTable(self.proc, dev.name)

EligibleEntries(self) ==
    {k \in 1..Len(self.sys.entries) : Eligible(self, self.sys.entries[k])}

\* The scan's result holds exactly the eligible entries, as Disk records.
ResultIsEligibleSet ==
    /\ {eligible.disks[i].name : i \in 1..Len(eligible.disks)}
          = {scanner.sys.entries[k].name : k \in EligibleEntries(scanner)}
    /\ \A i \in 1..Len(eligible.disks) :
          \E k \in EligibleEntries(scanner) :
              LET dev == scanner.sys.entries[k]
              IN  eligible.disks[i] =
                      [name |-> dev.name, dev_path |-> DevDir \o dev.name,
                       size_bytes |-> dev.size.val * 512, model |-> dev.model]

\* C12: when eligible_disks succeeds it returns exactly the entries of the
\* block root that satisfy the whole eligibility predicate, each once, in
\* ascending order of name; no removable, read-only, undersized, mounted,
\* virtual-prefixed or absent device is returned.
C12_ExactlyTheEligible ==
    (pc = "scanned" /\ eligible.ok) =>
        /\ ResultIsEligibleSet
        /\ \A i \in 1..Len(eligible.disks), j \in 1..Len(eligible.disks) :
              i < j => StrLess(eligible.disks[i].name, eligible.disks[j].name)

C12_SomeReturnedSomeExcluded ==
    /\ pc = "scanned"
    /\ eligible.ok
    /\ Len(eligible.disks) >= 2
    /\ \E k \in 1..Len(scanner.sys.entries) : scanner.sys.entries[k].removable = OkVal(1)

\* C13: with the block directory and the mount table readable, an unreadable
\* or unparsable attribute file of one device never makes the scan fail: the
\* scan succeeds and returns exactly the eligible devices.
C13_AttributeErrorsAreLocal ==
    (pc = "scanned" /\ scanner.sys.block_readable /\ scanner.proc.readable) =>
        (eligible.ok /\ ResultIsEligibleSet)

\* C14: an unreadable block directory or an unreadable mount table always
\* makes the scan, and the selection, fail with an I/O error.
C14_UnreadableRootsAreFatal ==
    (pc = "scanned" /\ (~scanner.sys.block_readable \/ ~scanner.proc.readable)) =>
        (~eligible.ok /\ selection.kind = "IoError")

-----------------------------------------------------------------------------
(* The pure functions on bounded inputs                                    *)

MaxNameLen == 2

NameChars == {"a", "p", "0", "9"}

mmcblk0 == << "m", "m", "c", "b", "l", "k", "0" >>

\* Base names: the usual device names and every short name over NameChars.
BaseNames ==
    {sda, sdb, nvme0n1, loop0, mmcblk0}
    \cup UNION {[1..n -> NameChars] : n \in 1..MaxNameLen}

DiskDirs == {DevDir, << "/" >>, << >>, << "/", "a", "/" >>}

\* Disk paths <dir><name>, with or without a trailing separator, and the
\* two paths that have no file name.
DiskPathArgs ==
    {[fn |-> "expected_esp_and_root_partitions", disk |-> d \o n \o t, name |-> n] :
        d \in DiskDirs, n \in BaseNames, t \in {<< >>, << "/" >>}}
    \cup {[fn |-> "expected_esp_and_root_partitions", disk |-> d, name |-> << >>] :
            d \in {<< >>, << "/" >>}}

\* PartitionPlan values, the default 512 among them.
EspSizes == {0, 1, 64, 511, 512, 513, 1024}

InstructionArgs ==
    {[fn |-> "partition_instructions", backend |-> b, plan |-> [esp_size_mib |-> n]] :
        b \in {"sfdisk", "parted"}, n \in EspSizes}

\* /etc/hosts lines: localhost, two stale 127.0.1.1 mappings (one indented),
\* another address that begins with the same characters, IPv6 loopback, an
\* unrelated host and 127.0.0.1 under another name.
HostsLines ==
    {<< "1", "2", "7", ".", "0", ".", "0", ".", "1", "\t", "l", "o", "c", "a", "l", "h", "o", "s", "t" >>,
     << "1", "2", "7", ".", "0", ".", "1", ".", "1", "\t", "o", "l", "d" >>,
     << " ", " ", "1", "2", "7", ".", "0", ".", "1", ".", "1", " ", "o", "l", "d", "e", "r" >>,
     << "1", "2", "7", ".", "0", ".", "1", ".", "1", "0", "\t", "d", "b" >>,
     << ":", ":", "1", "\t", "l", "o", "c", "a", "l", "h", "o", "s", "t" >>,
     << "1", "0", ".", "0", ".", "0", ".", "2", "\t", "n", "a", "s" >>,
     << "1", "2", "7", ".", "0", ".", "0", ".", "1", "\t", "n", "a", "s" >>}

MaxHostsLines == 3

\* How the file ends after its last line: unterminated, terminated, or
\* followed by one or two blank lines.
HostsEndings == {<< >>, Nl, Nl \o Nl, Nl \o Nl \o Nl}

HostsTexts ==
    {Join(body, Nl) \o e :
        body \in UNION {[1..n -> HostsLines] : n \in 0..MaxHostsLines},
        e \in HostsEndings}

Hostnames == {<< "t", "r", "u", "t", "h", "d", "b", "0", "1" >>, << "d", "b" >>}

\* The target's /etc before configure_hostname: /etc/hosts absent or any of
\* HostsTexts, no /etc/hostname.
EtcBefore ==
    {[hostname |-> << >>, hosts_exists |-> FALSE, hosts |-> << >>]}
    \cup {[hostname |-> << >>, hosts_exists |-> TRUE, hosts |-> t] : t \in HostsTexts}

HostnameArgs ==
    {[fn |-> "configure_hostname", etc |-> e, hostname |-> h] :
        e \in EtcBefore, h \in Hostnames}

\* /etc/machine-id before the step: absent, empty, the "uninitialized"
\* marker, a valid id, 31 and 33 hexadecimal characters, 32 characters one of
\* which is not hexadecimal.
MachineIdFiles ==
    {[readable |-> FALSE, text |-> << >>]}
    \cup {[readable |-> TRUE, text |-> t] :
             t \in {<< >>,
                    << "u", "n", "i", "n", "i", "t", "i", "a", "l", "i", "z", "e", "d", "\n" >>,
                    << "0", "1", "2", "3", "4", "5", "6", "7", "8", "9", "a", "b",
                       "c", "d", "e", "f", "0", "1", "2", "3", "4", "5", "6", "7",
                       "8", "9", "A", "B", "C", "D", "E", "F", "\n" >>,
                    << "0", "1", "2", "3", "4", "5", "6", "7", "8", "9", "a", "b",
                       "c", "d", "e", "f", "0", "1", "2", "3", "4", "5", "6", "7",
                       "8", "9", "A", "B", "C", "D", "E", "\n" >>,
                    << "0", "1", "2", "3", "4", "5", "6", "7", "8", "9", "a", "b",
                       "c", "d", "e", "f", "0", "1", "2", "3", "4", "5", "6", "7",
                       "8", "9", "A", "B", "C", "D", "E", "F", "0", "\n" >>,
                    << "g", "1", "2", "3", "4", "5", "6", "7", "8", "9", "a", "b",
                       "c", "d", "e", "f", "0", "1", "2", "3", "4", "5", "6", "7",
                       "8", "9", "A", "B", "C", "D", "E", "F", "\n" >>}}

\* /proc/sys/kernel/random/uuid: unreadable, a UUID, a truncated one.
KernelUuids ==
    {[readable |-> FALSE, text |-> << >>],
     [readable |-> TRUE,
      text |-> << "3", "f", "2", "b", "8", "c", "1", "e", "-", "7", "a", "4",
                 "d", "-", "4", "e", "9", "b", "-", "8", "c", "6", "f", "-",
                 "1", "d", "2", "e", "3", "a", "4", "b", "5", "c", "6", "d",
                 "\n" >>],
     [readable |-> TRUE, text |-> << "3", "f", "2", "b", "8", "c", "1", "e", "-", "7", "a", "4", "d", "\n" >>]}

MachineIdArgs ==
    {[fn |-> "ensure_machine_id", file |-> f, uuid |-> u] :
        f \in MachineIdFiles, u \in KernelUuids}

\* File names under /boot: kernels and initrds of versions 1, 2 and 10, and
\* two names that are neither.
BootNames ==
    {<< "v", "m", "l", "i", "n", "u", "z", "-", "1" >>,
     << "v", "m", "l", "i", "n", "u", "z", "-", "2" >>,
     << "v", "m", "l", "i", "n", "u", "z", "-", "1", "0" >>,
     << "i", "n", "i", "t", "r", "d", ".", "i", "m", "g", "-", "1" >>,
     << "i", "n", "i", "t", "r", "d", ".", "i", "m", "g", "-", "2" >>,
     << "i", "n", "i", "t", "r", "d", ".", "i", "m", "g", "-", "1", "0" >>,
     << "v", "m", "l", "i", "n", "u", "z", ".", "o", "l", "d" >>,
     << "g", "r", "u", "b" >>}

BootDirs ==
    {[readable |-> r, names |-> n] : r \in BOOLEAN, n \in SUBSET BootNames}

KernelArgs == {[fn |-> "find_installed_kernel_and_initrd", boot |-> b] : b \in BootDirs}

\* Lines of /proc/self/mountinfo: a partition of sda, sda itself, a device
\* whose name extends "sda", a partition of nvme0n1, a tmpfs, a line without
\* source, a line without separator, and sdb mounted on a mount point that is
\* spelled like sda's device path.
MountinfoLines ==
    {<< "2", "5", " ", "1", " ", "8", ":", "1", " ", "/", " ", "/", " ", "r", "w", " ", "-", " ", "e", "x", "t", "4", " ", "/", "d", "e", "v", "/", "s", "d", "a", "1", " ", "r", "w" >>,
     << "2", "6", " ", "1", " ", "8", ":", "0", " ", "/", " ", "/", "a", " ", "r", "w", " ", "-", " ", "e", "x", "t", "4", " ", "/", "d", "e", "v", "/", "s", "d", "a", " ", "r", "w" >>,
     << "2", "7", " ", "1", " ", "8", ":", "9", " ", "/", " ", "/", "b", " ", "r", "w", " ", "-", " ", "e", "x", "t", "4", " ", "/", "d", "e", "v", "/", "s", "d", "a", "b", " ", "r", "w" >>,
     << "2", "8", " ", "1", " ", "9", ":", "1", " ", "/", " ", "/", "n", " ", "r", "w", " ", "-", " ", "v", "f", "a", "t", " ", "/", "d", "e", "v", "/", "n", "v", "m", "e", "0", "n", "1", "p", "1", " ", "r", "w" >>,
     << "2", "9", " ", "1", " ", "0", ":", "5", " ", "/", " ", "/", "t", " ", "r", "w", " ", "-", " ", "t", "m", "p", "f", "s", " ", "t", "m", "p", "f", "s", " ", "r", "w" >>,
     << "3", "0", " ", "1", " ", "0", ":", "6", " ", "/", " ", "/", "x", " ", "r", "w", " ", "-", " ", "e", "x", "t", "4" >>,
     << "3", "1", " ", "1", " ", "0", ":", "7", " ", "/", " ", "/", "y", " ", "r", "w", " ", "e", "x", "t", "4", " ", "/", "d", "e", "v", "/", "s", "d", "a", " ", "r", "w" >>,
     << "3", "2", " ", "1", " ", "8", ":", "1", "6", " ", "/", " ", "/", "d", "e", "v", "/", "s", "d", "a", " ", "r", "w", " ", "-", " ", "e", "x", "t", "4", " ", "/", "d", "e", "v", "/", "s", "d", "b", " ", "r", "w" >>}

MaxMountLines == 2

MountinfoTexts ==
    {Join(body, Nl) \o e :
        body \in UNION {[1..n -> MountinfoLines] : n \in 0..MaxMountLines},
        e \in {<< >>, Nl}}

MountedArgs ==
    {[fn |-> "is_device_mounted", readable |-> r, contents |-> t, dev_name |-> n] :
        r \in BOOLEAN, t \in MountinfoTexts, n \in {sda, sdb, nvme0n1}}

PureArgs ==
    DiskPathArgs \cup InstructionArgs \cup HostnameArgs \cup MachineIdArgs \cup KernelArgs
    \cup MountedArgs

InitPure ==
    /\ call_arg \in PureArgs
    /\ call_ret = NoRet
    /\ scanner \in {Scanner(TRUE, << >>, Proc(TRUE, << >>))}
    /\ eligible = NoEligible
    /\ selection = NoSelection
    /\ rootfs \in {Rootfs(TRUE, "absent", "absent", FALSE, "present", "present")}
    /\ pc = "call"
    /\ app = AppNew
    /\ reported = << >>
    /\ payload_found = "unchecked"
    /\ partitions = NoPartitions
    /\ calls = << >>
    /\ ops = << >>
    /\ mounted = {}
    /\ poll_errors = 0
    /\ cleanups = << >>
    /\ exit_code = "running"

\* The variables the pure-function specification never changes.
PureFrame ==
    UNCHANGED << call_arg, scanner, eligible, selection, rootfs, app, reported, payload_found,
                 partitions, calls, ops, mounted, poll_errors, cleanups, exit_code >>

DerivePartitions ==
    /\ pc = "call"
    /\ call_arg.fn = "expected_esp_and_root_partitions"
    /\ pc' = "returned"
    /\ call_ret' = expected_esp_and_root_partitions(call_arg.disk)
    /\ PureFrame

\* What partition_with_sfdisk writes to sfdisk's standard input, or what
\* partition_with_parted passes to parted.
BuildInstructions ==
    /\ pc = "call"
    /\ call_arg.fn = "partition_instructions"
    /\ pc' = "returned"
    /\ call_ret' = IF call_arg.backend = "sfdisk"
                   THEN sfdisk_gpt_script(call_arg.plan)
                   ELSE parted_args("disk", call_arg.plan)
    /\ PureFrame

\* configure_hostname on the target's /etc, then once more on what the first
\* run left; call_ret.runs holds /etc after each run.
ConfigureHostname ==
    /\ call_arg.fn = "configure_hostname"
    /\ \/ /\ pc = "call"
          /\ pc' = "returned"
          /\ call_ret' = [ok |-> TRUE,
                          runs |-> << configure_hostname_files(call_arg.etc, call_arg.hostname) >>]
       \/ /\ pc = "returned"
          /\ pc' = "rerun"
          /\ call_ret' = [ok |-> TRUE,
                          runs |-> Append(call_ret.runs,
                                     configure_hostname_files(call_ret.runs[1],
                                                              call_arg.hostname))]
    /\ PureFrame

EnsureMachineId ==
    /\ pc = "call"
    /\ call_arg.fn = "ensure_machine_id"
    /\ pc' = "returned"
    /\ call_ret' = ensure_machine_id(call_arg.file, call_arg.uuid)
    /\ PureFrame

FindKernel ==
    /\ pc = "call"
    /\ call_arg.fn = "find_installed_kernel_and_initrd"
    /\ pc' = "returned"
    /\ call_ret' = find_installed_kernel_and_initrd(call_arg.boot)
    /\ PureFrame

IsDeviceMounted ==
    /\ pc = "call"
    /\ call_arg.fn = "is_device_mounted"
    /\ pc' = "returned"
    /\ call_ret' = is_device_mounted([readable |-> call_arg.readable,
                                      lines |-> mountinfo_lines(call_arg.contents)],
                                     call_arg.dev_name)
    /\ PureFrame

NextPure ==
    \/ IsDeviceMounted
    \/ DerivePartitions
    \/ BuildInstructions
    \/ ConfigureHostname
    \/ EnsureMachineId
    \/ FindKernel

SpecPure == InitPure /\ [][NextPure]_vars

-----------------------------------------------------------------------------
(* The App of app.rs on its own: any sequence of its public operations     *)

AppKeys == {"q", "Q", "w"}

\* The messages handed to App::handle_error and the line handed to log_step.
AppErrors == {<< "Input error: ", "poll failed" >>}
AppLine == L("[OK] step")

\* The number of handle_error calls in one sequence of operations.
MaxAppErrors == 1

InitApp ==
    /\ app = AppNew
    /\ reported = << >>
    /\ pc = "app"
    /\ call_arg = [fn |-> "none"]
    /\ call_ret = NoRet
    /\ scanner \in {Scanner(TRUE, << >>, Proc(TRUE, << >>))}
    /\ eligible = NoEligible
    /\ selection = NoSelection
    /\ rootfs \in {Rootfs(TRUE, "absent", "absent", FALSE, "present", "present")}
    /\ payload_found = "unchecked"
    /\ partitions = NoPartitions
    /\ calls = << >>
    /\ ops = << >>
    /\ mounted = {}
    /\ poll_errors = 0
    /\ cleanups = << >>
    /\ exit_code = "running"

\* The variables the operations of App never change.
AppFrame ==
    UNCHANGED << call_arg, call_ret, scanner, eligible, selection, rootfs, pc, payload_found,
                 partitions, calls, ops, mounted, poll_errors, cleanups, exit_code >>

AppInitialize ==
    /\ pc = "app"
    /\ app' = initialize(app)
    /\ UNCHANGED reported
    /\ AppFrame

AppHandleInput(key) ==
    /\ pc = "app"
    /\ app' = handle_input(app, key)
    /\ UNCHANGED reported
    /\ AppFrame

AppHandleError(error) ==
    /\ pc = "app"
    /\ Len(reported) < MaxAppErrors
    /\ app' = handle_error(app, error)
    /\ reported' = Append(reported, error)
    /\ AppFrame

AppLogStep ==
    /\ pc = "app"
    /\ app' = log_step(app, AppLine)
    /\ UNCHANGED reported
    /\ AppFrame

NextApp ==
    \/ AppInitialize
    \/ \E key \in AppKeys : AppHandleInput(key)
    \/ \E error \in AppErrors : AppHandleError(error)
    \/ AppLogStep

SpecApp == InitApp /\ [][NextApp]_vars

Digits == {"0", "1", "2", "3", "4", "5", "6", "7", "8", "9"}

\* C15: for a disk path with base name <name> the function returns
\* (/dev/<name><sep>1, /dev/<name><sep>2), where <sep> is "p" if <name> ends
\* in an ASCII digit and empty otherwise; the result depends on nothing but
\* the base name.
C15_PartitionPathsFromBaseName ==
    (pc = "returned" /\ call_arg.fn = "expected_esp_and_root_partitions" /\ call_arg.name # << >>) =>
        LET sep == IF call_arg.name[Len(call_arg.name)] \in Digits THEN << "p" >> ELSE << >>
        IN  call_ret = [ok   |-> TRUE,
                   esp  |-> DevDir \o call_arg.name \o sep \o << "1" >>,
                   root |-> DevDir \o call_arg.name \o sep \o << "2" >>]

C15_NvmeDerived ==
    /\ pc = "returned"
    /\ call_arg.fn = "expected_esp_and_root_partitions"
    /\ call_arg.disk = DevDir \o nvme0n1
    /\ call_ret.ok
    /\ call_ret.esp = DevDir \o nvme0n1 \o << "p", "1" >>
    /\ call_ret.root = DevDir \o nvme0n1 \o << "p", "2" >>

Built(backend) ==
    /\ pc = "returned"
    /\ call_arg.fn = "partition_instructions"
    /\ call_arg.backend = backend

\* The pieces of the generated instructions, the arguments of a command
\* line separated by blanks.
InstructionPieces ==
    IF call_arg.backend = "sfdisk" THEN call_ret ELSE Join(call_ret, << " " >>)

HasPiece(pieces, x) == \E i \in 1..Len(pieces) : pieces[i] = x

Positions(pieces, x) == {i \in 1..Len(pieces) : pieces[i] = x}

\* C16 as stated: whichever backend is selected, the generated instructions
\* contain the ESP type GUID, the Linux-filesystem type GUID and the
\* configured ESP size in MiB.
C16_BothBackendsNameGuidsAndSize ==
    (Built("sfdisk") \/ Built("parted")) =>
        /\ HasPiece(InstructionPieces, EFI_SYSTEM_PARTITION_GUID)
        /\ HasPiece(InstructionPieces, LINUX_FILESYSTEM_GUID)
        /\ Contains(InstructionPieces, MiB(call_arg.plan.esp_size_mib))

\* C16 amended: the sfdisk script holds label gpt, then one line giving the
\* configured size and the ESP type GUID, then one line giving the Linux
\* type GUID and no size; the parted arguments hold no GUID and describe the
\* same layout by position: partition 1 "ESP", fat32, from 1MiB to
\* (1 + esp_size_mib)MiB with the esp flag on, partition 2 "root", ext4, from
\* (1 + esp_size_mib)MiB to 100%.
C16_BackendsDescribeSameLayout ==
    /\ Built("sfdisk") =>
          LET esp == call_arg.plan.esp_size_mib
          IN  /\ call_ret[1] = "label: gpt"
              /\ Contains(call_ret, << "\n", "size=" >> \o MiB(esp)
                                    \o << ", type=", EFI_SYSTEM_PARTITION_GUID, "\n" >>)
              /\ Contains(call_ret, << "\n", "type=", LINUX_FILESYSTEM_GUID, "\n" >>)
              /\ Cardinality(Positions(call_ret, "size=")) = 1
              /\ Cardinality(Positions(call_ret, EFI_SYSTEM_PARTITION_GUID)) = 1
              /\ Cardinality(Positions(call_ret, LINUX_FILESYSTEM_GUID)) = 1
              /\ \A i \in Positions(call_ret, EFI_SYSTEM_PARTITION_GUID),
                    j \in Positions(call_ret, LINUX_FILESYSTEM_GUID) : i < j
    /\ Built("parted") =>
          LET esp == call_arg.plan.esp_size_mib
          IN  /\ ~HasPiece(InstructionPieces, EFI_SYSTEM_PARTITION_GUID)
              /\ ~HasPiece(InstructionPieces, LINUX_FILESYSTEM_GUID)
              /\ Contains(call_ret, << << "mklabel" >>, << "gpt" >>,
                                       << "mkpart" >>, << "ESP" >>, << "fat32" >>,
                                       MiB(1), MiB(1 + esp),
                                       << "set" >>, << "1" >>, << "esp" >>, << "on" >>,
                                       << "mkpart" >>, << "root" >>, << "ext4" >>,
                                       MiB(1 + esp), << "100%" >> >>)

C16_DefaultPlanForParted ==
    /\ Built("parted")
    /\ call_arg.plan.esp_size_mib = 512
    /\ Contains(call_ret, << << "513", "MiB" >>, << "set" >> >>)

\* The i-th invocation is partition_gpt_esp_root's probe of program, with
\* the given answer.
IsProbe(i, program, exists) ==
    i \in OpIdx /\ ops[i] = command_exists("partition_gpt_esp_root", program, exists)

\* C17: partition_gpt_esp_root runs sfdisk whenever its probe succeeds and
\* then does not even probe parted; it runs parted only after a failed sfdisk
\* probe and a successful parted probe; when both probes fail it runs no
\* partitioning tool and fails with the no-partition-tool error; sfdisk and
\* parted never both run.
C17_SfdiskPreferred ==
    /\ \A i \in OpIdx :
          /\ IsProbe(i, "sfdisk", TRUE) =>
                (i < Len(ops) /\ ops[i + 1].cmd = "sfdisk")
          /\ ops[i].cmd = "sfdisk" => IsProbe(i - 1, "sfdisk", TRUE)
          /\ ops[i].cmd = "parted" =>
                (IsProbe(i - 1, "parted", TRUE) /\ IsProbe(i - 2, "sfdisk", FALSE))
          /\ IsProbe(i, "parted", TRUE) =>
                (i < Len(ops) /\ ops[i + 1].cmd = "parted")
          /\ IsProbe(i, "parted", FALSE) =>
                /\ IsProbe(i - 1, "sfdisk", FALSE)
                /\ \A k \in OpIdx : ops[k].cmd \notin PartitionTools
                /\ \E c \in CallIdx : calls[c] = CallAt("partition_gpt_esp_root", FALSE, {})
                /\ \E k \in 1..Len(reported) :
                      reported[k] = << "Partitioning failed: ", "No partitioning tool available" >>
    /\ ~(\E i \in OpIdx, j \in OpIdx : ops[i].cmd = "sfdisk" /\ ops[j].cmd = "parted")

C17_PartedUsed ==
    \E i \in OpIdx : ops[i].cmd = "parted" /\ ops[i].ok /\ IsProbe(i - 2, "sfdisk", FALSE)

\* C18: once the partitioning tool itself has succeeded,
\* partition_gpt_esp_root returns success, whatever the reread does.
C18_RereadNeverFails ==
    \A i \in OpIdx :
        (ops[i].cmd \in PartitionTools /\ ops[i].ok) =>
            \E c \in CallIdx : calls[c].fn = "partition_gpt_esp_root" /\ calls[c].ok

\* C19: a second configure_hostname with the same hostname leaves
\* /etc/hostname and /etc/hosts exactly as the first run wrote them.
C19_SecondRunChangesNothing ==
    (call_arg.fn = "configure_hostname" /\ pc = "rerun") =>
        call_ret.runs[2] = call_ret.runs[1]

\* A hosts line whose address field is 127.0.1.1.
Is_127_0_1_1_Entry(line) ==
    LET trimmed == Trim(line)
    IN  /\ StartsWith(trimmed, Addr_127_0_1_1)
        /\ (Len(trimmed) = Len(Addr_127_0_1_1)
            \/ trimmed[Len(Addr_127_0_1_1) + 1] \in White)

\* The non-blank lines of a hosts text that are no 127.0.1.1 entry.
OtherLines(text) ==
    SelectSeq(Lines(text), LAMBDA l : Trim(l) # << >> /\ ~Is_127_0_1_1_Entry(l))

RECURSIVE IsSubsequence(_, _)
IsSubsequence(a, b) ==
    IF a = << >> THEN TRUE
    ELSE IF b = << >> THEN FALSE
    ELSE IF Head(a) = Head(b) THEN IsSubsequence(Tail(a), Tail(b))
    ELSE IsSubsequence(a, Tail(b))

\* C20: when the hosts file held one or more 127.0.1.1 entries, the file
\* configure_hostname writes has exactly one 127.0.1.1 entry, the one that
\* maps to the new hostname, and every other (non-blank) original line is
\* still there, verbatim and in the original order.
C20_StaleEntryReplacedOthersKept ==
    (/\ call_arg.fn = "configure_hostname"
     /\ pc \in {"returned", "rerun"}
     /\ call_arg.etc.hosts_exists
     /\ \E i \in 1..Len(Lines(call_arg.etc.hosts)) :
            Is_127_0_1_1_Entry(Lines(call_arg.etc.hosts)[i])) =>
        LET out == Lines(call_ret.runs[1].hosts)
        IN  /\ Cardinality({i \in 1..Len(out) : Is_127_0_1_1_Entry(out[i])}) = 1
            /\ \A i \in 1..Len(out) :
                  Is_127_0_1_1_Entry(out[i]) =>
                      out[i] = Addr_127_0_1_1 \o Tab \o call_arg.hostname
            /\ IsSubsequence(OtherLines(call_arg.etc.hosts), out)

\* The lines of /etc/hosts after the first configure_hostname.
HostsWritten == Lines(call_ret.runs[1].hosts)

HostnameRan == call_arg.fn = "configure_hostname" /\ pc \in {"returned", "rerun"}

\* The number of lines whose address field is addr.
CountAddr(lines, addr) ==
    Cardinality({i \in 1..Len(lines) : Fields(lines[i]) # << >> /\ Fields(lines[i])[1] = addr})

\* C21: whatever /etc/hosts held, the file configure_hostname writes has
\* exactly one line mapping 127.0.0.1 to localhost.
C21_ExactlyOneLocalhostLine ==
    HostnameRan =>
        Cardinality({i \in 1..Len(HostsWritten) :
                        Fields(HostsWritten[i]) = << Addr_127_0_0_1, << "l", "o", "c", "a", "l", "h", "o", "s", "t" >> >>}) = 1

Addr_ff02_1 == << "f", "f", "0", "2", ":", ":", "1" >>

Addr_ff02_2 == << "f", "f", "0", "2", ":", ":", "2" >>

\* C22: whatever /etc/hosts held, the file configure_hostname writes has a
\* line for ::1 and one for each of ff02::1 and ff02::2; a line that was
\* absent is appended once and a line that was present is not duplicated.
C22_Ipv6DefaultsEnsured ==
    HostnameRan =>
        \A addr \in {Ipv6Marker, Addr_ff02_1, Addr_ff02_2} :
            LET before == CountAddr(Lines(IF call_arg.etc.hosts_exists
                                          THEN call_arg.etc.hosts ELSE << >>), addr)
            IN  CountAddr(HostsWritten, addr) = IF before = 0 THEN 1 ELSE before

\* What configure_initial_users looks for in the target before it runs a tool.
RequiredInTarget ==
    << "/mnt/usr/bin/sudo", "/mnt/usr/sbin/groupadd", "/mnt/usr/sbin/useradd",
       "/mnt/usr/sbin/chpasswd" >>

MissingDependencyReports ==
    {<< "User setup failed: ", "Target rootfs is missing sudo" >>,
     << "User setup failed: ", "Missing in target rootfs" >>}

\* C23: when sudo, groupadd, useradd or chpasswd is absent from the target,
\* configure_initial_users fails with the missing-dependency error and no tool
\* is run inside the target; a tool is run inside the target only after all
\* four were found.
C23_MissingDependencyBeforeTools ==
    \A i \in OpIdx :
        /\ (ops[i].by = "configure_initial_users" /\ ops[i].cmd = "exists" /\ ~ops[i].ok) =>
              /\ \A j \in OpIdx : ops[j].cmd # "chroot"
              /\ \E c \in CallIdx : calls[c].fn = "configure_initial_users" /\ ~calls[c].ok
              /\ \E k \in 1..Len(reported) : reported[k] \in MissingDependencyReports
        /\ ops[i].cmd = "chroot" =>
              \A n \in 1..Len(RequiredInTarget) :
                  \E j \in 1..(i - 1) :
                      ops[j] = Op("configure_initial_users", "exists", RequiredInTarget[n], TRUE)

C23_ChpasswdMissing ==
    \E i \in OpIdx :
        ops[i] = Op("configure_initial_users", "exists", "/mnt/usr/sbin/chpasswd", FALSE)

\* /etc/passwd of the target holds a line beginning with "truthdb:".
AccountInPasswd ==
    \E i \in 1..Len(Lines(Passwd(rootfs.user).text)) :
        StartsWith(Lines(Passwd(rootfs.user).text)[i], username \o << ":" >>)

IsTool(i, program) == i \in OpIdx /\ ops[i].cmd = "chroot" /\ ops[i].arg = program

IsChpasswd(i, name) ==
    IsTool(i, "/usr/sbin/chpasswd") /\ ops[i].stdin # << >> /\ ops[i].stdin[1] = name

\* C24: groupadd runs first; useradd runs next exactly when /etc/passwd has
\* no line beginning with "truthdb:"; then chpasswd for truthdb, then chpasswd
\* for root; after a failed tool no later one runs.
C24_UserStepsInOrder ==
    \A i \in OpIdx :
        /\ IsTool(i, "/usr/sbin/groupadd") =>
              /\ \A j \in 1..(i - 1) : ops[j].cmd # "chroot"
              /\ ops[i].ok =>
                    IF AccountInPasswd THEN IsChpasswd(i + 1, "truthdb")
                    ELSE IsTool(i + 1, "/usr/sbin/useradd")
        /\ IsTool(i, "/usr/sbin/useradd") =>
              /\ ~AccountInPasswd
              /\ IsTool(i - 1, "/usr/sbin/groupadd")
              /\ ops[i].ok => IsChpasswd(i + 1, "truthdb")
        /\ IsChpasswd(i, "truthdb") =>
              /\ IsTool(i - 1, "/usr/sbin/useradd") \/ IsTool(i - 1, "/usr/sbin/groupadd")
              /\ ops[i].ok => IsChpasswd(i + 1, "root")
        /\ IsChpasswd(i, "root") => IsChpasswd(i - 1, "truthdb")
        /\ (ops[i].cmd = "chroot" /\ ~ops[i].ok) =>
              \A j \in (i + 1)..Len(ops) : ops[j].cmd # "chroot"

\* C25: the password is in no argument of any process that is spawned; the
\* password-change tool receives "<name>:<password>\n" on standard input.
C25_PasswordOnlyOnStdin ==
    \A i \in OpIdx :
        /\ ops[i].arg # password
        /\ \A k \in 1..Len(ops[i].args) :
              \A m \in 1..Len(ops[i].args[k]) : ops[i].args[k][m] # password
        /\ IsTool(i, "/usr/sbin/chpasswd") =>
              \E name \in {"truthdb", "root"} : ops[i].stdin = << name, ":", password, "\n" >>

C25_BothPasswordsSet ==
    \E i \in OpIdx :
        /\ IsChpasswd(i, "truthdb") /\ ops[i].ok
        /\ IsChpasswd(i + 1, "root") /\ ops[i + 1].ok

\* A valid machine id: exactly 32 hexadecimal characters.
IsMachineId(text) ==
    Len(text) = 32 /\ \A i \in 1..Len(text) : is_ascii_hexdigit(text[i])

\* The first 32 hexadecimal characters of the kernel's UUID.
IdFromUuid(uuid) == SubSeq(SelectSeq(uuid.text, is_ascii_hexdigit), 1, 32)

\* C26: when ensure_machine_id succeeds, /etc/machine-id holds exactly 32
\* hexadecimal characters: a valid existing value is kept as it is, and an
\* absent or malformed one is replaced by the id derived from the kernel UUID.
C26_MachineIdValidAfterwards ==
    (call_arg.fn = "ensure_machine_id" /\ pc = "returned" /\ call_ret.ok) =>
        /\ call_ret.file.readable
        /\ IsMachineId(Trim(call_ret.file.text))
        /\ IF call_arg.file.readable /\ IsMachineId(Trim(call_arg.file.text))
           THEN call_ret.file = call_arg.file
           ELSE call_ret.file.text = IdFromUuid(call_arg.uuid) \o Nl

IsLookup(i, unit, found) == i \in OpIdx /\ ops[i] = optional_lookup(unit, IF found THEN "present" ELSE "missing")

IsPid1(i) == i \in OpIdx /\ ops[i].by = "ensure_systemd_pid1"

DhcpCallOk ==
    \E c \in CallIdx : calls[c].fn = "configure_first_boot_dhcp" /\ calls[c].ok

\* C27: a missing unit file of systemd-networkd-wait-online or
\* systemd-resolved only skips that unit, and a failure of ensure_systemd_pid1
\* is only warned about: configure_first_boot_dhcp goes on and succeeds; a
\* missing unit file of systemd-networkd makes it fail.
C27_OptionalUnitsNeverFatal ==
    \A i \in OpIdx :
        /\ IsLookup(i, "systemd-networkd-wait-online.service", FALSE) =>
              \E found \in BOOLEAN : IsLookup(i + 1, "systemd-resolved.service", found)
        /\ IsLookup(i, "systemd-resolved.service", FALSE) => IsPid1(i + 1)
        /\ (ops[i].by = "enable_systemd_unit" /\ ops[i].arg = "systemd-networkd-wait-online.service") =>
              rootfs.wait_online # "missing"
        /\ (ops[i].by = "enable_systemd_unit" /\ ops[i].arg = "systemd-resolved.service") =>
              rootfs.resolved # "missing"
        /\ IsPid1(i) => DhcpCallOk
        /\ ops[i] = Op("enable_systemd_unit", "find_systemd_unit_file",
                       "systemd-networkd.service", FALSE) =>
              /\ \E c \in CallIdx : calls[c].fn = "configure_first_boot_dhcp" /\ ~calls[c].ok
              /\ \A j \in (i + 1)..Len(ops) : ops[j].by = "unmount_target"
              /\ \E k \in 1..Len(reported) :
                    reported[k] = << "Networking setup failed: ", "Failed to configure networking" >>

C27_WarnedAndSucceeded ==
    /\ DhcpCallOk
    /\ \E i \in OpIdx : IsPid1(i) /\ ~ops[i].ok
    /\ \E i \in OpIdx : IsLookup(i, "systemd-resolved.service", FALSE)

BootCallOk ==
    \E c \in CallIdx : calls[c].fn = "configure_boot_systemd_boot" /\ calls[c].ok

\* The six files verify_esp_layout looks for.
ExpectedEspFiles ==
    {"/mnt/boot/efi/EFI/BOOT/BOOTX64.EFI", "/mnt/boot/efi/EFI/systemd/systemd-bootx64.efi",
     "/mnt/boot/efi/loader/loader.conf", "/mnt/boot/efi/loader/entries/debian.conf",
     "/mnt/boot/efi/EFI/debian/vmlinuz", "/mnt/boot/efi/EFI/debian/initrd.img"}

AllEspFilesFoundBefore(i) ==
    \A f \in ExpectedEspFiles :
        \E j \in 1..(i - 1) : ops[j] = Op("verify_esp_layout", "exists", f, TRUE)

\* C28: configure_boot_systemd_boot succeeds only after verify_esp_layout
\* found each of the six expected files on the ESP; when one is missing the
\* function fails and register_uefi_boot_entry is not called.
C28_SuccessNeedsEspFiles ==
    /\ BootCallOk => AllEspFilesFoundBefore(Len(ops) + 1)
    /\ \A i \in OpIdx :
          /\ ops[i].by = "register_uefi_boot_entry" => AllEspFilesFoundBefore(i)
          /\ (ops[i].by = "verify_esp_layout" /\ ~ops[i].ok) =>
                /\ ops[i].arg \in ExpectedEspFiles
                /\ \E c \in CallIdx :
                      calls[c].fn = "configure_boot_systemd_boot" /\ ~calls[c].ok
                /\ \A j \in OpIdx : ops[j].by # "register_uefi_boot_entry"

C28_KernelMissingOnEsp ==
    \E i \in OpIdx :
        ops[i] = Op("verify_esp_layout", "exists", "/mnt/boot/efi/EFI/debian/vmlinuz", FALSE)

\* The version suffix of a kernel or initrd name.
Suffix(name, prefix) == SubSeq(name, Len(prefix) + 1, Len(name))

\* C29: the kernel picked is the greatest vmlinuz-* name under /boot and the
\* initrd picked is the initrd.img-* name with the same version suffix; when
\* there is no kernel, or no initrd for that kernel, the function fails.
C29_KernelWithMatchingInitrd ==
    (call_arg.fn = "find_installed_kernel_and_initrd" /\ pc = "returned") =>
        LET kernels == {n \in call_arg.boot.names : StartsWith(n, KernelPrefix)}
            newest  == Greatest(kernels)
            wanted  == InitrdPrefix \o Suffix(newest, KernelPrefix)
        IN  IF call_arg.boot.readable /\ kernels # {} /\ wanted \in call_arg.boot.names
            THEN call_ret.ok /\ call_ret.kernel = newest /\ call_ret.initrd = wanted
            ELSE ~call_ret.ok

\* C30: when the payload archive does not exist, extract_rootfs_payload fails
\* with the payload-missing error and neither runs tar nor does anything else
\* to the target; tar is run only right after the archive was found.
C30_NoExtractionWithoutPayload ==
    \A i \in OpIdx :
        /\ ops[i] = Op("extract_rootfs_payload", "exists", "payload", FALSE) =>
              /\ \A j \in OpIdx : ops[j].cmd # "tar"
              /\ \A j \in (i + 1)..Len(ops) : ops[j].by = "unmount_target"
              /\ \E c \in CallIdx : calls[c].fn = "extract_rootfs_payload" /\ ~calls[c].ok
              /\ \E k \in 1..Len(reported) :
                    reported[k] = << "Extract failed: ", "Payload does not exist" >>
        /\ ops[i].cmd = "tar" =>
              /\ i > 1
              /\ ops[i - 1] = Op("extract_rootfs_payload", "exists", "payload", TRUE)

C30_PayloadGone ==
    /\ \E i \in OpIdx : ops[i] = Op("extract_rootfs_payload", "exists", "payload", FALSE)
    /\ \E k \in 1..Len(reported) : reported[k] = << "Extract failed: ", "Payload does not exist" >>

\* C31: format_partitions fails when either mkfs fails, and mkfs.ext4 is not
\* run after a failed mkfs.vfat; after a formatting failure nothing is
\* mounted, extracted or configured.
C31_FormatFailureIsFatal ==
    /\ \A i \in OpIdx :
          (ops[i].by = "format_partitions" /\ ~ops[i].ok) =>
              /\ i = Len(ops)
              /\ ops[i].cmd = "mkfs.vfat" => \A j \in OpIdx : ops[j].cmd # "mkfs.ext4"
              /\ \E c \in CallIdx : calls[c].fn = "format_partitions" /\ ~calls[c].ok
              /\ \A c \in CallIdx :
                    calls[c].fn \notin {"mount_partitions", "unmount_target"} \cup LateSteps
              /\ pc = "exited"
              /\ \E k \in 1..Len(reported) :
                    reported[k] \in {<< "Formatting failed: ", "mkfs.vfat failed" >>,
                                     << "Formatting failed: ", "mkfs.ext4 failed" >>}
    /\ \A c \in CallIdx :
          (calls[c].fn = "format_partitions" /\ calls[c].ok) =>
              \E i \in OpIdx :
                  /\ ops[i] = Op("format_partitions", "mkfs.vfat", "esp", TRUE)
                  /\ i < Len(ops)
                  /\ ops[i + 1] = Op("format_partitions", "mkfs.ext4", "root", TRUE)

C31_EspFormatFailed ==
    \E i \in OpIdx : ops[i] = Op("format_partitions", "mkfs.vfat", "esp", FALSE)

\* The errors reported by the install phase (those of the main loop are
\* input errors).
StepErrors == {k \in 1..Len(reported) : reported[k][1] # "Input error: "}

\* C32: the install phase reports at most one step error: the first failing
\* step ends the phase.
C32_AtMostOneStepError ==
    Cardinality(StepErrors) <= 1

\* The platform functions of the install phase, in the order of run().
StepOrder ==
    << "choose_single_target_disk", "wipefs_all", "partition_gpt_esp_root",
       "expected_esp_and_root_partitions", "format_partitions", "mount_partitions",
       "extract_rootfs_payload", "configure_hostname", "configure_initial_users",
       "configure_first_boot_dhcp", "configure_boot_systemd_boot", "sync_disks",
       "unmount_target" >>

\* C33: the steps run in the fixed order: the k-th step run is the k-th of
\* the order, so that no step runs before an earlier one or twice, the wipe
\* runs only after the payload check found the payload, and the only step
\* that may run with later-ordered steps left out is the unmount that ends
\* the phase after mount_partitions.
C33_StepsInFixedOrder ==
    /\ Len(calls) <= Len(StepOrder)
    /\ \A k \in CallIdx :
          \/ calls[k].fn = StepOrder[k]
          \/ /\ calls[k].fn = "unmount_target"
             /\ k = Len(calls)
             /\ k > 6
    /\ (\E k \in CallIdx : calls[k].fn = "wipefs_all") =>
          (payload_found = "present" /\ selection.kind = "Ok")

C33_AllStepsRan ==
    /\ Len(calls) = Len(StepOrder)
    /\ \A k \in CallIdx : calls[k].fn = StepOrder[k] /\ calls[k].ok

\* The source field of a mountinfo line: the second token after the first
\* " - "; << >> when the line has none.
SourceField(line) ==
    LET sp == split_once(line, << " ", "-", " " >>)
    IN  IF sp.some /\ Len(Fields(sp.after)) >= 2 THEN Fields(sp.after)[2] ELSE << >>

\* The source fields of the lines of a mount table.
Sources(contents) == {SourceField(Lines(contents)[i]) : i \in 1..Len(Lines(contents))}

\* C34: with a readable mount table, a device named <name> is reported
\* mounted if and only if the source field of some line is /dev/<name> or
\* begins with it.
C34_MountedIffSourceHasPrefix ==
    (call_arg.fn = "is_device_mounted" /\ pc = "returned" /\ call_arg.readable) =>
        /\ call_ret.ok
        /\ call_ret.val <=>
              \E src \in Sources(call_arg.contents) :
                  StartsWith(src, DevDir \o call_arg.dev_name)

\* sda is reported mounted although only sdab is.
C34_UnrelatedDeviceExcludes ==
    /\ call_arg.fn = "is_device_mounted"
    /\ pc = "returned"
    /\ call_arg.dev_name = sda
    /\ Sources(call_arg.contents) = {DevDir \o sda \o << "b" >>}
    /\ call_ret.ok
    /\ call_ret.val

\* C35: the App starts in BootSplash with should_exit false; initialize
\* moves BootSplash to Welcome and changes nothing in any other state;
\* handle_input moves Welcome and Error to Exit with should_exit true on 'q'
\* or 'Q', and changes nothing for any other key or state.
C35_InitializeAndQuitTransitions ==
    /\ app.state.tag = "BootSplash" /\ ~app.should_exit
    /\ [][/\ AppInitialize =>
               IF app.state.tag = "BootSplash"
               THEN app' = [app EXCEPT !.state = AppState("Welcome", << >>)]
               ELSE app' = app
          /\ \A key \in AppKeys :
               AppHandleInput(key) =>
                   IF app.state.tag \in {"Welcome", "Error"} /\ key \in {"q", "Q"}
                   THEN app' = [app EXCEPT !.state = AppState("Exit", << >>),
                                           !.should_exit = TRUE]
                   ELSE app' = app]_vars

\* The quit key was taken in the Error state.
C35_QuitFromError ==
    /\ pc = "app"
    /\ app.state.tag = "Exit"
    /\ app.should_exit
    /\ reported # << >>

\* C36: after any sequence of App operations should_exit is true exactly
\* when the state is Exit.
C36_ShouldExitIffExit ==
    pc = "app" => (app.should_exit <=> app.state.tag = "Exit")

InstallCompleteLine == L("[OK] Install complete (reboot and remove ISO)")

InstallCompleteLogged ==
    \E k \in 1..Len(app.log_lines) : app.log_lines[k] = InstallCompleteLine

\* C37: the install-complete line is logged only in runs in which no step
\* error was reported and every step succeeded, and the App is not in the
\* Error state when the line is logged.
C37_InstallCompleteOnlyAfterCleanRun ==
    InstallCompleteLogged =>
        /\ StepErrors = {}
        /\ \A c \in CallIdx : calls[c].ok
        /\ pc = "render_initial" => app.state.tag # "Error"

\* run() has left the install phase of main.rs:93-245.
InstallPhaseEnded == pc \in {"render_initial", "main_loop", "cleanup", "exited"}

\* C38: provided every umount that was run succeeded, nothing is left
\* mounted at target_root or target_efi once the install phase has ended.
C38_NothingLeftMounted ==
    (InstallPhaseEnded /\ \A i \in OpIdx : ops[i].cmd = "umount" => ops[i].ok) =>
        mounted \cap {target_root, target_efi} = {}

\* C39: every successful return of run() (exit status 0) comes after
\* input.cleanup and ui.cleanup were called.
C39_CleanupBeforeSuccessfulReturn ==
    exit_code = "exit0" => cleanups = << "input.cleanup", "ui.cleanup" >>

\* The last max_log_lines elements of a sequence of lines.
MostRecent(lines) ==
    IF Len(lines) <= max_log_lines THEN lines
    ELSE [k \in 1..max_log_lines |-> lines[Len(lines) - max_log_lines + k]]

ExitLine == L("[OK] Exiting")

\* C40: the step log never holds more than max_log_lines lines; every
\* operation leaves in it the most recent lines of the old log followed by
\* the lines the operation appended, in that order; get_display_text is the
\* log, followed by the exit line exactly when the state is Exit.
C40_LogHoldsMostRecentLines ==
    /\ [](pc = "app" =>
            LET text == get_display_text(app)
                n    == Len(app.log_lines)
            IN  /\ n <= max_log_lines
                /\ Len(text) = n + (IF app.state.tag = "Exit" THEN 1 ELSE 0)
                /\ \A k \in 1..n : text[k] = app.log_lines[k]
                /\ app.state.tag = "Exit" => text[n + 1] = ExitLine)
    /\ [][/\ AppLogStep => app'.log_lines = MostRecent(app.log_lines \o << AppLine >>)
          /\ \A error \in AppErrors :
               AppHandleError(error) =>
                   app'.log_lines = MostRecent(app.log_lines \o << << "[ERR] " >> \o error >>)
          /\ (AppInitialize \/ \E key \in AppKeys : AppHandleInput(key)) =>
               app'.log_lines = app.log_lines]_vars

\* The log is full, its oldest line was dropped, and the exit line is shown.
C40_FullLogInExit ==
    /\ pc = "app"
    /\ Len(app.log_lines) = max_log_lines
    /\ app.log_lines[1] # L("TruthDB Installer booting")
    /\ app.state.tag = "Exit"
    /\ \E k \in 1..Len(app.log_lines) : app.log_lines[k][1] = "[ERR] "

====
